---- MODULE Spec2Model ----
(***************************************************************************)
(* Apo.IA literacy tutor: the conversation phase state machine of          *)
(* services/conversation_manager.py with the pure helpers it calls         *)
(* (text_detection, literacy_evaluator, reading_exercises) and the state   *)
(* and history stores (user_state_manager, conversation_history).          *)
(*                                                                         *)
(* Python strings are sequences of one-character strings, so that lower(), *)
(* startswith(), "in", split() and the accent stripping are computed and   *)
(* not assumed.  Python None is the empty tuple <<>> and a present value v *)
(* is <<v>>; a dictionary key that is missing is <<>> as well and is read  *)
(* through Get(), the model of dict.get(key, default).                     *)
(***************************************************************************)
EXTENDS Integers, Sequences, FiniteSets, TLC

VARIABLES user_states, disk, user_histories, hist, user_vectorstores, now, openai_client, last

vars == <<user_states, disk, user_histories, hist, user_vectorstores, now, openai_client, last>>

(***************************************************************************)
(* Bounds of the model.                                                    *)
(***************************************************************************)
\* longest history (in messages) at which a new turn may still start
MaxHist == 14
\* largest exercise number at which another exercise may still be requested
MaxExercicio == 2
\* turns that may be aborted by a failing embedding call
MaxAborted == 1
\* latest hour at which the clock may still be
MaxNow == 37
\* largest limit get_history is called with
MaxLimit == 5
\* largest exercise number the generator is called with
MaxCallExercicio == 4
\* longest history at which a turn may still start when two users talk
MaxUsersHist == 14
\* longest history at which a request may still start a turn
MaxRoutesHist == 14

(***************************************************************************)
(* Characters and strings.                                                 *)
(***************************************************************************)
None == <<>>
Some(v) == <<v>>
IsNone(o) == o = <<>>
Val(o) == o[1]
\* dict.get(key, default) for a key that may be missing
Get(o, default) == IF o = <<>> THEN default ELSE o[1]

UpperChars ==
  <<"A","B","C","D","E","F","G","H","I","J","K","L","M","N","O","P","Q","R",
    "S","T","U","V","W","X","Y","Z","Á","Ã","Ç","É","Ó">>
LowerChars ==
  <<"a","b","c","d","e","f","g","h","i","j","k","l","m","n","o","p","q","r",
    "s","t","u","v","w","x","y","z","á","ã","ç","é","ó">>
AccentedChars == <<"á","ã","ç","é","ó","Á","Ã","Ç","É","Ó">>
UnaccentedChars == <<"a","a","c","e","o","A","A","C","E","O">>
Digits == <<"0","1","2","3","4","5","6","7","8","9">>

\* string.punctuation (without the double quote, the backslash and the
\* backquote, which no message of the model contains)
Punctuation ==
  {"!", "#", "$", "%", "&", "'", "(", ")", "*", "+", ",", "-", ".",
   "/", ":", ";", "<", "=", ">", "?", "@", "[", "]", "^", "_",
   "{", "|", "}", "~"}

Range(s) == {s[i] : i \in 1..Len(s)}
IndexOf(s, c) == CHOOSE i \in 1..Len(s) : s[i] = c
Translate(from, to, c) == IF c \in Range(from) THEN to[IndexOf(from, c)] ELSE c

LowerChar(c) == Translate(UpperChars, LowerChars, c)
UpperChar(c) == Translate(LowerChars, UpperChars, c)
\* str.lower()
Lower(s) == [i \in 1..Len(s) |-> LowerChar(s[i])]
\* str.upper()
Upper(s) == [i \in 1..Len(s) |-> UpperChar(s[i])]
\* str.capitalize()
Capitalize(s) ==
  [i \in 1..Len(s) |-> IF i = 1 THEN UpperChar(s[i]) ELSE LowerChar(s[i])]

\* str.translate(...) deleting every character of string.punctuation
RemovePunctuation(s) == SelectSeq(s, LAMBDA c : c \notin Punctuation)
\* unicodedata.normalize(NFD) with the combining marks (category Mn) dropped
StripAccents(s) ==
  [i \in 1..Len(s) |-> Translate(AccentedChars, UnaccentedChars, s[i])]

RECURSIVE LStrip(_)
LStrip(s) == IF s # <<>> /\ Head(s) = " " THEN LStrip(Tail(s)) ELSE s
RECURSIVE RStrip(_)
RStrip(s) ==
  IF s # <<>> /\ s[Len(s)] = " " THEN RStrip(SubSeq(s, 1, Len(s) - 1)) ELSE s
\* str.strip()
Strip(s) == LStrip(RStrip(s))

\* str.startswith(prefix)
StartsWith(s, p) == Len(p) <= Len(s) /\ SubSeq(s, 1, Len(p)) = p
\* "p in s" for strings
Contains(s, p) ==
  \E i \in 1..(Len(s) - Len(p) + 1) : SubSeq(s, i, i + Len(p) - 1) = p

\* str.split(): the maximal runs of non-blank characters
RECURSIVE SplitFrom(_, _, _)
SplitFrom(s, i, cur) ==
  IF i > Len(s) THEN (IF cur = <<>> THEN <<>> ELSE <<cur>>)
  ELSE IF s[i] = " "
       THEN (IF cur = <<>> THEN <<>> ELSE <<cur>>) \o SplitFrom(s, i + 1, <<>>)
       ELSE SplitFrom(s, i + 1, Append(cur, s[i]))
Split(s) == SplitFrom(s, 1, <<>>)

\* str.join of the words with one blank between them
RECURSIVE Join(_)
Join(ws) ==
  IF ws = <<>> THEN <<>>
  ELSE IF Len(ws) = 1 THEN ws[1]
  ELSE ws[1] \o <<" ">> \o Join(Tail(ws))

\* int(digits)
RECURSIVE ToInt(_)
ToInt(ds) ==
  IF ds = <<>> THEN 0
  ELSE 10 * ToInt(SubSeq(ds, 1, Len(ds) - 1)) + (IndexOf(Digits, ds[Len(ds)]) - 1)

(***************************************************************************)
(* services/text_detection.py.  The regular expressions are evaluated on   *)
(* the blank-separated tokens of the message.  This is exact for messages  *)
(* whose tokens are a run of letters, a run of digits, or a run of letters *)
(* followed by punctuation, and in which no token other than the           *)
(* conjunction "e" ends in the letter e (such a token would let a pattern  *)
(* end a name inside the token); every message of Messages is of this      *)
(* form.                                                                   *)
(***************************************************************************)
AsciiLetters ==
  {"a","b","c","d","e","f","g","h","i","j","k","l","m","n","o","p","q","r",
   "s","t","u","v","w","x","y","z",
   "A","B","C","D","E","F","G","H","I","J","K","L","M","N","O","P","Q","R",
   "S","T","U","V","W","X","Y","Z"}
\* the class [A-Za-zÀ-ÿ]
Letters == AsciiLetters \cup Range(AccentedChars)

IsDigits(w) == w # <<>> /\ \A i \in 1..Len(w) : w[i] \in Range(Digits)
IsLetters(w) == w # <<>> /\ \A i \in 1..Len(w) : w[i] \in Letters

\* the longest prefix of the token made of letters
RECURSIVE LetterPrefix(_)
LetterPrefix(w) ==
  IF w # <<>> /\ Head(w) \in Letters THEN <<Head(w)>> \o LetterPrefix(Tail(w))
  ELSE <<>>
\* what follows the letters in the token
AfterLetters(w) == SubSeq(w, Len(LetterPrefix(w)) + 1, Len(w))

\* the least element of a non-empty set of numbers
Min(S) == CHOOSE x \in S : \A y \in S : x <= y
\* the greatest element of a non-empty set of numbers
Max(S) == CHOOSE x \in S : \A y \in S : x >= y

\* idade_patterns[0]: \b(\d{1,3})\s*anos?\b, the leftmost match
AgePattern1(t) ==
  LET hits == {i \in 1..(Len(t) - 1) :
                 /\ IsDigits(t[i]) /\ Len(t[i]) <= 3
                 /\ Lower(LetterPrefix(t[i + 1])) \in {<<"a","n","o">>, <<"a","n","o","s">>}
                 /\ (AfterLetters(t[i + 1]) = <<>> \/ Head(AfterLetters(t[i + 1])) \in Punctuation)}
  IN IF hits = {} THEN None ELSE Some(ToInt(t[Min(hits)]))
\* idade_patterns[1]: \btenho\s+(\d{1,3})\b
AgePattern2(t) ==
  LET hits == {i \in 1..(Len(t) - 1) :
                 /\ Lower(t[i]) = <<"t","e","n","h","o">>
                 /\ IsDigits(t[i + 1]) /\ Len(t[i + 1]) <= 3}
  IN IF hits = {} THEN None ELSE Some(ToInt(t[Min(hits) + 1]))
\* idade_patterns[2]: \b(\d{1,3})\s*$
AgePattern3(t) ==
  IF t # <<>> /\ IsDigits(t[Len(t)]) /\ Len(t[Len(t)]) <= 3
  THEN Some(ToInt(t[Len(t)])) ELSE None
\* idade_patterns[3]: ^\s*(\d{1,3})\s*$
AgePattern4(t) ==
  IF Len(t) = 1 /\ IsDigits(t[1]) /\ Len(t[1]) <= 3 THEN Some(ToInt(t[1])) ELSE None

MinAge == 1
MaxAge == 120
\* a faulty test, which takes every number for an age
ValidAgeUnbounded(m) == ~IsNone(m)

\* 1 <= idade <= 120
ValidAge(m) == ~IsNone(m) /\ MinAge <= Val(m) /\ Val(m) <= MaxAge

\* _detect_age: the first pattern whose match is a realistic age
DetectAge(user_message) ==
  LET t == Split(user_message)
  IN IF ValidAge(AgePattern1(t)) THEN AgePattern1(t)
     ELSE IF ValidAge(AgePattern2(t)) THEN AgePattern2(t)
     ELSE IF ValidAge(AgePattern3(t)) THEN AgePattern3(t)
     ELSE IF ValidAge(AgePattern4(t)) THEN AgePattern4(t)
     ELSE None

\* the tail (?:e\s+|,|$) of the first and third name patterns, tried after the
\* letters of token i have been taken into the name
NameEnds(t, i) ==
  IF AfterLetters(t[i]) # <<>> THEN Head(AfterLetters(t[i])) = ","
  ELSE \/ i = Len(t)
       \/ i + 2 <= Len(t) /\ Lower(t[i + 1]) = <<"e">>
       \/ i + 1 <= Len(t) /\ Head(t[i + 1]) = ","

\* the introductions of the first name pattern, in the order of the alternation
NameIntros ==
  << <<<<"m","e">>, <<"c","h","a","m","o">>>>,
     <<<<"m","e","u">>, <<"n","o","m","e">>, <<"é">>>>,
     <<<<"n","o","m","e">>, <<"é">>>>,
     <<<<"e","u">>, <<"s","o","u">>, <<"o">>>>,
     <<<<"e","u">>, <<"s","o","u">>, <<"a">>>>,
     <<<<"s","o","u">>, <<"o">>>>,
     <<<<"s","o","u">>, <<"a">>>>,
     <<<<"s","o","u">>>> >>

\* the name captured when the words of the name start at token j: two
\* words when the pattern can end after the second, else one word
NameGroup(t, j, minLen, first) ==
  LET ok(w) == Len(LetterPrefix(w)) >= minLen /\ Head(w) \in first
  IN IF j > Len(t) \/ ~ok(t[j]) THEN None
     ELSE IF /\ j + 1 <= Len(t) /\ IsLetters(t[j]) /\ ok(t[j + 1])
             /\ NameEnds(t, j + 1)
          THEN Some(<<LetterPrefix(t[j]), LetterPrefix(t[j + 1])>>)
     ELSE IF NameEnds(t, j) THEN Some(<<LetterPrefix(t[j])>>)
     ELSE None

\* nome_patterns[0]: an introduction, then one or two words, then e / , / end
NamePattern1(t) ==
  LET at(i, k) ==
        LET intro == NameIntros[k]
        IN IF /\ i + Len(intro) - 1 <= Len(t)
              /\ \A n \in 1..Len(intro) : Lower(t[i + n - 1]) = intro[n]
           THEN NameGroup(t, i + Len(intro), 1, Letters)
           ELSE None
      hits == {<<i, k>> \in (1..Len(t)) \X (1..Len(NameIntros)) : ~IsNone(at(i, k))}
      i0 == Min({h[1] : h \in hits})
      k0 == Min({h[2] : h \in {g \in hits : g[1] = i0}})
  IN IF hits = {} THEN None ELSE at(i0, k0)
\* nome_patterns[1]: a word of three letters or more before "e tenho"
NamePattern2(t) ==
  LET hits == {i \in 1..(Len(t) - 2) :
                 /\ IsLetters(t[i]) /\ Len(t[i]) >= 3
                 /\ Lower(t[i + 1]) = <<"e">>
                 /\ StartsWith(Lower(t[i + 2]), <<"t","e","n","h","o">>)}
  IN IF hits = {} THEN None ELSE Some(<<t[Min(hits)]>>)
\* nome_patterns[2]: one or two words at the start, then e / , / end
NamePattern3(t) == NameGroup(t, 1, 2, AsciiLetters)
\* nome_patterns[3]: the message is one word of three letters or more
NamePattern4(t) ==
  IF Len(t) = 1 /\ IsLetters(t[1]) /\ Len(t[1]) >= 3 /\ Head(t[1]) \in AsciiLetters
  THEN Some(<<t[1]>>) ELSE None
\* nome_patterns[4]: the leftmost word of three letters or more
NamePattern5(t) ==
  LET hits == {i \in 1..Len(t) :
                 /\ Len(LetterPrefix(t[i])) >= 3 /\ Head(t[i]) \in AsciiLetters
                 /\ (AfterLetters(t[i]) = <<>> \/ Head(AfterLetters(t[i])) \in Punctuation)}
  IN IF hits = {} THEN None ELSE Some(<<LetterPrefix(t[Min(hits)])>>)

palavras_ignorar ==
  { <<"O","i">>, <<"O","l","á">>, <<"B","o","m">>, <<"B","o","a">>,
    <<"T","e","n","h","o">>, <<"A","n","o","s">>, <<"A","n","o">>,
    <<"M","e","u">>, <<"M","i","n","h","a">>, <<"N","o","m","e">>,
    <<"I","d","a","d","e">>, <<"S","o","u">>, <<"E">> }

\* the match re-capitalised word by word
NomeTemp(m) == Join([i \in 1..Len(Val(m)) |-> Capitalize(Val(m)[i])])
ValidName(m) ==
  ~IsNone(m) /\ NomeTemp(m) \notin palavras_ignorar /\ Len(NomeTemp(m)) > 1

\* _detect_name: the first pattern whose match is not a common word
DetectName(user_message) ==
  LET t == Split(user_message)
  IN IF ValidName(NamePattern1(t)) THEN Some(NomeTemp(NamePattern1(t)))
     ELSE IF ValidName(NamePattern2(t)) THEN Some(NomeTemp(NamePattern2(t)))
     ELSE IF ValidName(NamePattern3(t)) THEN Some(NomeTemp(NamePattern3(t)))
     ELSE IF ValidName(NamePattern4(t)) THEN Some(NomeTemp(NamePattern4(t)))
     ELSE IF ValidName(NamePattern5(t)) THEN Some(NomeTemp(NamePattern5(t)))
     ELSE None

\* detect_name_and_age
detect_name_and_age(user_message) ==
  [nome |-> DetectName(user_message), idade |-> DetectAge(user_message)]

(***************************************************************************)
(* services/literacy_evaluator.py                                          *)
(***************************************************************************)
Iniciante == <<"i","n","i","c","i","a","n","t","e">>
Intermediario == <<"i","n","t","e","r","m","e","d","i","á","r","i","o">>
Avancado == <<"a","v","a","n","ç","a","d","o">>

\* _normalize_word
NormalizeWord(word) == Strip(StripAccents(Lower(RemovePunctuation(word))))

\* taxa_acerto >= p, for taxa_acerto = acertos / total * 100 (0 when total = 0)
TaxaAtLeast(acertos, total, p) ==
  IF total > 0 THEN 100 * acertos >= p * total ELSE 0 >= p

\* _classify_level
ClassifyLevel(acertos, total) ==
  IF TaxaAtLeast(acertos, total, 80) THEN Avancado
  ELSE IF TaxaAtLeast(acertos, total, 50) THEN Intermediario
  ELSE Iniciante

\* analyze_reading_level
analyze_reading_level(user_response, expected_words) ==
  LET user_words_raw == Split(user_response)
      user_words == SelectSeq([i \in 1..Len(user_words_raw) |-> NormalizeWord(user_words_raw[i])],
                              LAMBDA w : w # <<>>)
      expected_set == {NormalizeWord(expected_words[i]) : i \in 1..Len(expected_words)}
      acertos == Cardinality({i \in 1..Len(user_words) : user_words[i] \in expected_set})
      total == Len(expected_words)
  IN [nivel |-> ClassifyLevel(acertos, total), acertos |-> acertos, total |-> total]

\* get_test_words("basico")
palavras_basico ==
  << <<"C","A","S","A">>, <<"S","O","L">>, <<"P","A","T","O">>, <<"B","O","L","A">> >>

(***************************************************************************)
(* services/reading_exercises.py.  A text is the sequence of its words;    *)
(* palavras_chave is left out, no caller reads it.                         *)
(***************************************************************************)
BankIniciante ==
  <<
     [titulo |-> "O Sol e a Lua", dificuldade |-> 1,
      texto |->
                <<"O", "sol", "brilha", "de", "dia.", "A", "lua", "brilha",
                  "de", "noite.", "O", "sol", "é", "quente.", "A", "lua",
                  "é", "fria.">>],
     [titulo |-> "Minha Casa", dificuldade |-> 1,
      texto |->
                <<"Eu", "tenho", "uma", "casa.", "A", "casa", "tem",
                  "porta.", "A", "casa", "tem", "janela.", "Eu", "gosto",
                  "da", "minha", "casa.">>],
     [titulo |-> "O Gato", dificuldade |-> 1,
      texto |->
                <<"O", "gato", "é", "bonito.", "O", "gato", "bebe",
                  "leite.", "O", "gato", "gosta", "de", "brincar.", "Eu",
                  "amo", "meu", "gato.">>]
  >>

BankIntermediario ==
  <<
     [titulo |-> "O Dia na Escola", dificuldade |-> 2,
      texto |->
                <<"Todos", "os", "dias", "eu", "vou", "para", "a",
                  "escola.", "Na", "escola", "eu", "aprendo", "a", "ler",
                  "e", "escrever.", "Minha", "professora", "é", "muito",
                  "legal.", "Eu", "gosto", "de", "estudar", "com", "meus",
                  "amigos.">>],
     [titulo |-> "Meu Final de Semana", dificuldade |-> 2,
      texto |->
                <<"No", "fim", "de", "semana", "eu", "gosto", "de",
                  "brincar.", "Eu", "jogo", "bola", "com", "meus",
                  "amigos.", "Também", "ajudo", "minha", "mãe", "em",
                  "casa.", "É", "muito", "divertido.">>],
     [titulo |-> "Meu Animal Favorito", dificuldade |-> 2,
      texto |->
                <<"Meu", "animal", "favorito", "é", "o", "cachorro.", "Os",
                  "cachorros", "são", "fiéis", "e", "brincam", "muito.",
                  "Eles", "gostam", "de", "passear", "e", "correr", "no",
                  "parque.", "Eu", "quero", "ter", "um", "cachorro.">>]
  >>

BankAvancado ==
  <<
     [titulo |-> "A Importância da Leitura", dificuldade |-> 3,
      texto |->
                <<"A", "leitura", "é", "fundamental", "para", "o",
                  "desenvolvimento", "pessoal.", "Quando", "lemos,",
                  "aprendemos", "coisas", "novas", "e", "expandimos",
                  "nossa", "imaginação.", "Os", "livros", "nos", "levam",
                  "a", "lugares", "diferentes", "e", "nos", "apresentam",
                  "pessoas", "interessantes.", "Por", "isso,", "devemos",
                  "ler", "todos", "os", "dias.">>],
     [titulo |-> "Cuidando do Meio Ambiente", dificuldade |-> 3,
      texto |->
                <<"É", "importante", "cuidar", "do", "meio", "ambiente.",
                  "Podemos", "fazer", "isso", "reciclando", "o", "lixo,",
                  "economizando", "água", "e", "plantando", "árvores.",
                  "Quando", "cuidamos", "da", "natureza,", "estamos",
                  "cuidando", "do", "nosso", "futuro", "e", "do", "planeta",
                  "onde", "vivemos.">>]
  >>

\* dict.get(nivel, textos_por_nivel["iniciante"]): the keys are the exact names
TextosPorNivel(nivel) ==
  IF nivel = Some(Iniciante) THEN BankIniciante
  ELSE IF nivel = Some(Intermediario) THEN BankIntermediario
  ELSE IF nivel = Some(Avancado) THEN BankAvancado
  ELSE BankIniciante

\* get_reading_text
get_reading_text(nivel, exercicio_num) ==
  LET textos == TextosPorNivel(nivel)
      index == (exercicio_num - 1) % Len(textos)
  IN textos[index + 1]

\* the level the generator works with: (nivel or "iniciante").lower(), then
\* the substring tests "avanc" and "inter"
NivelNorm(nivel) ==
  LET nivel_norm == Lower(Get(nivel, Iniciante))
  IN IF Contains(nivel_norm, <<"a","v","a","n","c">>) THEN Avancado
     ELSE IF Contains(nivel_norm, <<"i","n","t","e","r">>) THEN Intermediario
     ELSE Iniciante

\* the values nivel_alfabetizacao takes, and NivelNorm tabulated over them
Niveis == {None, Some(Iniciante), Some(Intermediario), Some(Avancado)}
NivelNormDe == [n \in Niveis |-> NivelNorm(n)]

\* dificuldade and titulo_padrao of the rule chosen for nivel_norm
RegraDificuldade(nivel_norm) ==
  IF nivel_norm = Iniciante THEN 1 ELSE IF nivel_norm = Intermediario THEN 2 ELSE 3
TituloPadrao(nivel_norm) ==
  IF nivel_norm = Iniciante THEN "Palavra do Dia"
  ELSE IF nivel_norm = Intermediario THEN "Palavras Básicas"
  ELSE "Leitura Simples"

\* the minimal guarantees per level applied to the words of data["texto"]
GarantiasMinimas(nivel_norm, palavras) ==
  IF nivel_norm = Iniciante
  THEN IF Len(palavras) # 1
       THEN (IF palavras # <<>> THEN <<palavras[1]>> ELSE <<"SOL">>)
       ELSE palavras
  ELSE IF nivel_norm = Intermediario
  THEN IF Len(palavras) < 3 THEN SubSeq(palavras \o <<"casa", "bola", "gato">>, 1, 3)
       ELSE IF Len(palavras) > 6 THEN SubSeq(palavras, 1, 6)
       ELSE palavras
  ELSE IF Len(palavras) = 0 THEN <<"Eu", "leio", "um", "livro.">>
       ELSE IF Len(palavras) > 16 THEN SubSeq(palavras, 1, 16)
       ELSE palavras

\* What the completion service can answer to the generator: the call raises,
\* the content is no valid JSON, or it is a JSON object whose titulo may be
\* missing and whose texto has n words.
LLMWords ==
  <<"w01", "w02", "w03", "w04", "w05", "w06", "w07", "w08", "w09", "w10",
    "w11", "w12", "w13", "w14", "w15", "w16", "w17", "w18">>
LLMLengths == {0, 2, 17}
GenOutcomes ==
  {[kind |-> "raise", titulo |-> None, texto |-> <<>>],
   [kind |-> "invalid", titulo |-> None, texto |-> <<>>]}
  \cup {[kind |-> "object", titulo |-> IF n = 0 THEN None ELSE Some("Dica"),
         texto |-> SubSeq(LLMWords, 1, n)] : n \in LLMLengths}

\* generate_dynamic_reading_challenge, for one answer of the completion service
generate_dynamic_reading_challenge(client, nivel, exercicio_num, out) ==
  IF client = "none" THEN get_reading_text(nivel, exercicio_num)
  ELSE LET nivel_norm == NivelNormDe[nivel]
       IN IF out.kind # "object"
          THEN get_reading_text(Some(nivel_norm), exercicio_num)
          ELSE [titulo |-> Get(out.titulo, TituloPadrao(nivel_norm)),
                dificuldade |-> RegraDificuldade(nivel_norm),
                texto |-> GarantiasMinimas(nivel_norm, out.texto)]

\* _normalize_text: no punctuation, lower case, no accents, one blank
\* between the words
normalize_text(text) == Join(Split(StripAccents(Lower(RemovePunctuation(text)))))

\* difflib.SequenceMatcher.find_longest_match over the whole of a and b (no
\* element is junk): of the longest blocks a[i..i+k-1] = b[j..j+k-1] the one
\* that starts first in a and, of those, first in b; k = 0 when a and b
\* have no word in common
find_longest_match(a, b) ==
  LET blocks == {t \in (1..Len(a)) \X (1..Len(b)) \X (1..Len(a)) :
                   /\ t[1] + t[3] - 1 <= Len(a) /\ t[2] + t[3] - 1 <= Len(b)
                   /\ SubSeq(a, t[1], t[1] + t[3] - 1) = SubSeq(b, t[2], t[2] + t[3] - 1)}
      k == Max({t[3] : t \in blocks})
      i == Min({t[1] : t \in {u \in blocks : u[3] = k}})
      j == Min({t[2] : t \in {u \in blocks : u[3] = k /\ u[1] = i}})
  IN IF blocks = {} THEN [i |-> 1, j |-> 1, k |-> 0] ELSE [i |-> i, j |-> j, k |-> k]

\* the words in the matching blocks of SequenceMatcher(None, a, b): the
\* longest block, and the blocks to its left and to its right
RECURSIVE MatchedWords(_, _)
MatchedWords(a, b) ==
  IF a = <<>> \/ b = <<>> THEN 0
  ELSE LET m == find_longest_match(a, b)
       IN IF m.k = 0 THEN 0
          ELSE MatchedWords(SubSeq(a, 1, m.i - 1), SubSeq(b, 1, m.j - 1)) + m.k
               + MatchedWords(SubSeq(a, m.i + m.k, Len(a)), SubSeq(b, m.j + m.k, Len(b)))

\* palavras_erradas of _identificar_erros: for every "replace" of
\* get_opcodes (a stretch of a and a stretch of b between two matching
\* blocks, neither empty) the pairs of zip over the two stretches
RECURSIVE PalavrasErradas(_, _)
PalavrasErradas(a, b) ==
  IF a = <<>> \/ b = <<>> THEN <<>>
  ELSE LET m == find_longest_match(a, b)
       IN IF m.k = 0
          THEN [n \in 1..Min({Len(a), Len(b)}) |-> [esperada |-> a[n], lida |-> b[n]]]
          ELSE PalavrasErradas(SubSeq(a, 1, m.i - 1), SubSeq(b, 1, m.j - 1))
               \o PalavrasErradas(SubSeq(a, m.i + m.k, Len(a)), SubSeq(b, m.j + m.k, Len(b)))

\* _identificar_erros; of palavras_faltantes and palavras_extras, lists of
\* at most five words in the order of a Python set, the lengths
identificar_erros(esperadas, lidas) ==
  [palavras_erradas |-> PalavrasErradas(esperadas, lidas),
   palavras_faltantes |-> Min({5, Cardinality(Range(esperadas) \ Range(lidas))}),
   palavras_extras |-> Min({5, Cardinality(Range(lidas) \ Range(esperadas))})]

\* analyze_reading_attempt; similaridade is 200 * matched / (words of both),
\* compared with the thresholds without the division
analyze_reading_attempt(texto_esperado, texto_lido) ==
  LET palavras_esperadas == Split(normalize_text(texto_esperado))
      palavras_lidas == Split(normalize_text(texto_lido))
      matched == MatchedWords(palavras_esperadas, palavras_lidas)
      T == Len(palavras_esperadas) + Len(palavras_lidas)
      atleast(p) == IF T = 0 THEN TRUE ELSE 200 * matched >= p * T
      erros == identificar_erros(palavras_esperadas, palavras_lidas)
  IN [avaliacao |-> IF atleast(90) THEN "excelente"
                    ELSE IF atleast(70) THEN "bom"
                    ELSE IF atleast(50) THEN "regular"
                    ELSE "precisa_melhorar",
      total_palavras_esperadas |-> Len(palavras_esperadas),
      total_palavras_lidas |-> Len(palavras_lidas),
      erros |-> erros,
      acertos |-> Len(palavras_esperadas) - Len(erros.palavras_erradas)
                    - erros.palavras_faltantes]

(***************************************************************************)
(* services/user_state_manager.py                                         *)
(***************************************************************************)
\* the default state at time 0; the keys exercicio_numero, texto_atual and
\* texto_titulo are missing from it.  Times are counted in hours.
DefaultState ==
  [fase |-> "inicial", nome |-> None, idade |-> None,
   nivel_alfabetizacao |-> None, palavras_teste |-> <<>>, acertos |-> 0,
   total_testes |-> 0, exercicio_numero |-> <<>>, texto_atual |-> <<>>,
   texto_titulo |-> <<>>, ultimo_acesso |-> 0]

\* _get_default_state at time t
get_default_state(t) == [DefaultState EXCEPT !.ultimo_acesso = t]

\* the hours after which a stored conversation is expired
ExpiryHours == 24

\* a faulty test, for which a whole day is already too long
is_conversation_expired_at_a_day(state, t) == t - state.ultimo_acesso >= ExpiryHours

\* _is_conversation_expired at time t
is_conversation_expired(state, t) == t - state.ultimo_acesso > ExpiryHours

\* _load_user_state at time t: the default state when there is no file or
\* the stored record is expired, and else the stored record with its time
\* of last access set to t
LoadUserState(d, t) ==
  IF d = <<>> THEN get_default_state(t)
  ELSE IF is_conversation_expired(d[1], t) THEN get_default_state(t)
  ELSE [d[1] EXCEPT !.ultimo_acesso = t]

\* the state file of a user as _load_user_state finds it: missing,
\* unreadable (no JSON document), or a record
MissingFile == [kind |-> "missing", record |-> DefaultState]
UnreadableFile == [kind |-> "unreadable", record |-> DefaultState]
RecordFile(r) == [kind |-> "record", record |-> r]

\* _load_user_state over such a file: json.load raises on an unreadable
\* file and nothing catches it
load_user_state(file, t) ==
  IF file.kind = "unreadable" THEN [raised |-> TRUE, state |-> None]
  ELSE [raised |-> FALSE,
        state |-> Some(LoadUserState(IF file.kind = "missing" THEN <<>>
                                     ELSE Some(file.record), t))]

\* a faulty clean slate, which keeps the level and the scores
CleanInitialKeepingLevel(state) ==
  IF state.fase = "inicial"
  THEN [state EXCEPT !.nome = None, !.idade = None, !.palavras_teste = <<>>]
  ELSE state

\* the clean slate get_user_state enforces in the initial phase
CleanInitial(state) ==
  IF state.fase = "inicial"
  THEN [state EXCEPT !.nome = None, !.idade = None,
                     !.nivel_alfabetizacao = None, !.palavras_teste = <<>>,
                     !.acertos = 0, !.total_testes = 0]
  ELSE state

\* get_user_state: the state, from the cache or else from the disk
get_user_state(cache, d, t) ==
  CleanInitial(IF cache = <<>> THEN LoadUserState(d, t) ELSE cache[1])

(***************************************************************************)
(* services/conversation_history.py.  add_message stores a message with    *)
(* its role and its content; the content of a reply is the kind of the     *)
(* reply, the content of an inbound message is not told apart.  Of the     *)
(* stored history the model keeps the roles, in the order of insertion;    *)
(* the messages an operation added are in its record, with their content.  *)
(***************************************************************************)
UserMessage == [role |-> "user", content |-> "mensagem"]
AssistantMessage(reply) == [role |-> "assistant", content |-> reply]

\* a faulty history, which keeps the newest message first
add_messages_newest_first(history, messages) ==
  [i \in 1..Len(messages) |-> messages[Len(messages) + 1 - i].role] \o history

\* a faulty history, which keeps the latest four messages only
add_messages_keeping_the_latest(history, messages) ==
  LET h == history \o [i \in 1..Len(messages) |-> messages[i].role]
  IN IF Len(h) > 4 THEN SubSeq(h, Len(h) - 3, Len(h)) ELSE h

\* the history after add_message for each of the messages, in their order
add_messages(history, messages) ==
  history \o [i \in 1..Len(messages) |-> messages[i].role]

\* _load_user_history and the cache: the history that get_history and
\* add_message work on
get_history(cache, file) == IF cache = <<>> THEN file ELSE cache[1]

\* the end of get_history: history[-limit:] when the limit is given and is
\* not 0 (a limit of 0 is false in "if limit:"), else the whole history
get_history_limit(history, limit) ==
  IF limit # None /\ Val(limit) # 0
  THEN LET n == Val(limit)
       IN IF n >= Len(history) THEN history
          ELSE SubSeq(history, Len(history) - n + 1, Len(history))
  ELSE history

(***************************************************************************)
(* The messages a user sends: a greeting, introductions with a name, an    *)
(* age or both, an unrealistic age, and readings of the test words with    *)
(* zero to five hits (with punctuation, accents, capitals, repetitions).    *)
(***************************************************************************)
\* "Oi"
MsgOi ==
  <<"O","i">>
\* "sou Ana"
MsgSouAna ==
  <<"s","o","u"," ","A","n","a">>
\* "tenho 7 anos"
MsgTenho7 ==
  <<"t","e","n","h","o"," ","7"," ","a","n","o","s">>
\* "sou Bia e tenho 30 anos"
MsgBia30 ==
  <<"s","o","u"," ","B","i","a"," ","e"," ","t","e","n","h","o"," ","3","0"," ","a","n","o","s">>
\* "Ana 200"
MsgAna200 ==
  <<"A","n","a"," ","2","0","0">>
\* "casa sol pato bola"
MsgCasa4 ==
  <<"c","a","s","a"," ","s","o","l"," ","p","a","t","o"," ","b","o","l","a">>
\* "CASA, sól"
MsgCasa2 ==
  <<"C","A","S","A",","," ","s","ó","l">>
\* "casa casa casa casa casa"
MsgCasa5 ==
  <<"c","a","s","a"," ","c","a","s","a"," ","c","a","s","a"," ","c","a","s","a"," ","c","a","s","a">>
Messages ==
  {MsgOi, MsgSouAna, MsgTenho7, MsgBia30, MsgAna200, MsgCasa4, MsgCasa2, MsgCasa5}

\* _proximo_nivel
proximo_nivel(n) ==
  LET m == Lower(Get(n, Iniciante))
  IN IF StartsWith(m, <<"a","v","a","n","c">>) THEN Avancado
     ELSE IF StartsWith(m, <<"i","n","t","e","r">>) THEN Avancado
     ELSE Intermediario

(***************************************************************************)
(* The pure functions, tabulated once over the messages and the levels.    *)
(***************************************************************************)
WordLists == {<<>>, palavras_basico}
DetectedInfo == [m \in Messages |-> detect_name_and_age(m)]
ReadingLevel ==
  [m \in Messages |-> [w \in WordLists |-> analyze_reading_level(m, w)]]
MensagemLower == [m \in Messages |-> Strip(Lower(m))]
ProximoNivelDe == [n \in Niveis |-> proximo_nivel(n)]

(***************************************************************************)
(* services/conversation_manager.py: the phase handlers.  A handler is the *)
(* set of its possible results, one for each answer of the completion      *)
(* service; a result holds the state the handler leaves, the reply (by its *)
(* kind), the number of save_user_state calls, and what the handler saw.   *)
(***************************************************************************)
saudacoes ==
  {<<"o","i">>,
   <<"o","l","á">>,
   <<"o","l","a">>,
   <<"b","o","m"," ","d","i","a">>,
   <<"b","o","a"," ","t","a","r","d","e">>,
   <<"b","o","a"," ","n","o","i","t","e">>,
   <<"h","e","y">>,
   <<"e","i">>}

\* the first test of _should_restart_conversation: a bare greeting of a user
\* in the personalized phase
bare_greeting(state, user_message) ==
  state.fase = "personalizado" /\ MensagemLower[user_message] \in saudacoes

\* a faulty test, which does not look at the history
should_restart_conversation_any_history(state, user_message, history) ==
  bare_greeting(state, user_message)

\* _should_restart_conversation
should_restart_conversation(state, user_message, history) ==
  LET mensagem_lower == MensagemLower[user_message]
  IN IF state.fase = "personalizado" /\ mensagem_lower \in saudacoes
     THEN Len(history) = 0
     ELSE FALSE

NoInfo == [nome |-> None, idade |-> None]
Res(state, reply, saves) ==
  [state |-> state, reply |-> reply, saves |-> saves, raised |-> FALSE,
   msg |-> <<>>, info |-> NoInfo, action |-> "none", increase |-> FALSE,
   dificuldade |-> 0, llm |-> "none"]

\* a faulty handler, which takes every new user for a beginner
HandleInitialPhasePresetLevel(state) ==
  {Res([state EXCEPT !.fase = "aguardando_nome",
                     !.nivel_alfabetizacao = Some(Iniciante)], "saudacao", 1)}

\* a faulty handler, which does not save the state
HandleInitialPhaseUnsaved(state) ==
  {Res([state EXCEPT !.fase = "aguardando_nome"], "saudacao", 0)}

\* _handle_initial_phase
HandleInitialPhase(state) ==
  {Res([state EXCEPT !.fase = "aguardando_nome"], "saudacao", 1)}

\* a faulty merge, in which a detected value replaces the stored one
MergeInfoOverwriting(state, info) ==
  LET s1 == IF ~IsNone(info.nome) THEN [state EXCEPT !.nome = info.nome] ELSE state
  IN IF ~IsNone(info.idade) THEN [s1 EXCEPT !.idade = info.idade] ELSE s1

\* the merge of the detected name and age into the state
MergeInfo(state, info) ==
  LET s1 == IF ~IsNone(info.nome) /\ IsNone(state.nome)
            THEN [state EXCEPT !.nome = info.nome] ELSE state
  IN IF ~IsNone(info.idade) /\ IsNone(s1.idade)
     THEN [s1 EXCEPT !.idade = info.idade] ELSE s1

\* a faulty handler, which starts the test as soon as the name is known
HandleNameCollectionPhaseNameOnly(state, user_message) ==
  LET info == DetectedInfo[user_message]
      s == MergeInfo(state, info)
      r == IF ~IsNone(s.nome)
           THEN Res([s EXCEPT !.fase = "solicitar_teste_leitura",
                              !.palavras_teste = palavras_basico],
                    "dados_completos", 1)
           ELSE IF ~IsNone(s.idade) THEN Res(s, "pedir_nome", 1)
           ELSE Res(s, "pedir_nome_e_idade", 1)
  IN {[r EXCEPT !.info = info, !.msg = user_message]}

\* _handle_name_collection_phase
HandleNameCollectionPhase(state, user_message) ==
  LET info == DetectedInfo[user_message]
      s == MergeInfo(state, info)
      r == IF ~IsNone(s.nome) /\ ~IsNone(s.idade)
           THEN Res([s EXCEPT !.fase = "solicitar_teste_leitura",
                              !.palavras_teste = palavras_basico],
                    "dados_completos", 1)
           ELSE IF ~IsNone(s.nome) THEN Res(s, "pedir_idade", 1)
           ELSE IF ~IsNone(s.idade) THEN Res(s, "pedir_nome", 1)
           ELSE Res(s, "pedir_nome_e_idade", 1)
  IN {[r EXCEPT !.info = info, !.msg = user_message]}

\* a faulty handler, which advances the phase itself
HandleTestRequestPhaseAdvancing(state) ==
  {Res([state EXCEPT !.fase = "aguardando_teste_leitura"], "aviso_teste", 1)}

\* _handle_test_request_phase
HandleTestRequestPhase(state) == {Res(state, "aviso_teste", 0)}

\* a faulty override, which takes two words right for advanced
NivelAposTesteAtTwo(resultado) ==
  IF resultado.acertos >= 2 THEN Avancado ELSE resultado.nivel

\* the level stored after the test: the classified level, or advanced when
\* four words or more were right
NivelAposTeste(resultado) ==
  IF resultado.acertos >= 4 THEN Avancado ELSE resultado.nivel

\* a faulty handler, which does not start the exercise counter
HandleTestEvaluationPhaseNoCounter(state, user_message) ==
  LET resultado == ReadingLevel[user_message][state.palavras_teste]
  IN {[Res([state EXCEPT !.nivel_alfabetizacao = Some(NivelAposTeste(resultado)),
                         !.acertos = resultado.acertos,
                         !.total_testes = resultado.total,
                         !.fase = "exercicios_leitura"],
           "resultado_teste", 1)
       EXCEPT !.msg = user_message]}

\* _handle_test_evaluation_phase
HandleTestEvaluationPhase(state, user_message) ==
  LET resultado == ReadingLevel[user_message][state.palavras_teste]
  IN {[Res([state EXCEPT !.nivel_alfabetizacao = Some(NivelAposTeste(resultado)),
                         !.acertos = resultado.acertos,
                         !.total_testes = resultado.total,
                         !.exercicio_numero = Some(1),
                         !.fase = "exercicios_leitura"],
           "resultado_teste", 1)
       EXCEPT !.msg = user_message]}

\* texto_info of _handle_reading_exercises_phase: the generated challenge,
\* or the static text when the challenge has no text
TextoInfo(client, nivel, exercicio_num, out) ==
  LET gen == generate_dynamic_reading_challenge(client, nivel, exercicio_num, out)
  IN IF gen.texto = <<>> THEN get_reading_text(nivel, exercicio_num) ELSE gen

\* _handle_reading_exercises_phase
HandleReadingExercisesPhase(state, client) ==
  LET exercicio_num == Get(state.exercicio_numero, 1)
  IN {LET texto_info == TextoInfo(client, state.nivel_alfabetizacao, exercicio_num, out)
      IN [Res([state EXCEPT !.texto_atual = Some(texto_info.texto),
                            !.texto_titulo = Some(texto_info.titulo),
                            !.fase = "aguardando_leitura_audio"],
              "exercicio", 1)
          EXCEPT !.dificuldade = texto_info.dificuldade,
                 !.llm = IF client = "none" THEN "none" ELSE out.kind]
      : out \in GenOutcomes}

\* a faulty handler, which waits for another reading when the completion
\* service fails
HandleReadingEvaluationPhaseStuck(state, user_message) ==
  {[Res([state EXCEPT !.fase = IF f = "ok" THEN "aguardando_decisao_pos_feedback"
                                ELSE "aguardando_leitura_audio"], "retorno", 1)
    EXCEPT !.llm = f] : f \in {"ok", "raise"}}

\* _handle_reading_evaluation_phase; the feedback text comes from the
\* completion service or, when it raises, is the fixed fallback
HandleReadingEvaluationPhase(state, user_message) ==
  {[Res([state EXCEPT !.fase = "aguardando_decisao_pos_feedback"], "retorno", 1)
    EXCEPT !.llm = f] : f \in {"ok", "raise"}}

\* What the completion service can answer to the classifier: the call
\* raises; the content is no JSON document ("invalid"), among which a valid
\* object with text around it ("wrapped"); a JSON value that is no object;
\* or an object with an action (a string, or absent) and an increase_level
\* (a boolean, null, a string, or absent).
Act_help == <<"h","e","l","p">>
Act_exercise == <<"e","x","e","r","c","i","s","e">>
Act_unknown == <<"u","n","k","n","o","w","n">>
JBool(b) == [t |-> "bool", v |-> b]
JNull == [t |-> "null", v |-> FALSE]
JStr == [t |-> "str", v |-> FALSE]
JMissing == [t |-> "missing", v |-> FALSE]
DecObject(kind, action, increase) ==
  [kind |-> kind, action |-> action, increase_level |-> increase]
DecisionOutcomes ==
  {DecObject("raise", None, JMissing),
   DecObject("invalid", None, JMissing),
   DecObject("nonobject", None, JMissing),
   DecObject("wrapped", Some(Act_exercise), JBool(TRUE)),
   DecObject("object", Some(Act_help), JNull),
   DecObject("object", Some(Act_exercise), JBool(TRUE)),
   DecObject("object", Some(Act_exercise), JBool(FALSE)),
   DecObject("object", Some(Act_exercise), JStr),
   DecObject("object", Some(<<" ","E","x","e","r","c","i","s","e"," ">>), JMissing),
   DecObject("object", Some(<<"q","u","i","t">>), JBool(TRUE)),
   DecObject("object", Some(Act_unknown), JBool(TRUE)),
   DecObject("object", None, JBool(TRUE))}

Unknown == [action |-> Act_unknown, increase_level |-> None]
\* a faulty classifier, which returns the action as the service wrote it
decide_next_action_unsanitized(out) ==
  IF out.kind # "object" THEN Unknown
  ELSE [action |-> Strip(Lower(Get(out.action, Act_unknown))),
        increase_level |-> IF out.increase_level.t = "bool"
                           THEN Some(out.increase_level.v) ELSE None]

\* _decide_next_action, for one answer of the completion service
decide_next_action(out) ==
  IF out.kind # "object" THEN Unknown
  ELSE LET action == Strip(Lower(Get(out.action, Act_unknown)))
       IN [action |-> IF action \notin {Act_help, Act_exercise, Act_unknown}
                      THEN Act_unknown ELSE action,
           increase_level |-> IF out.increase_level.t = "bool"
                              THEN Some(out.increase_level.v) ELSE None]

\* a faulty exercise branch, which does not count the exercise
PrepareNextExerciseNoCount(state, increase) ==
  LET s == IF increase = Some(TRUE)
           THEN [state EXCEPT !.nivel_alfabetizacao =
                                Some(ProximoNivelDe[state.nivel_alfabetizacao])]
           ELSE state
  IN [s EXCEPT !.fase = "exercicios_leitura"]

\* the exercise branch of _handle_post_feedback_decision, up to the save
PrepareNextExercise(state, increase) ==
  LET s == IF increase = Some(TRUE)
           THEN [state EXCEPT !.nivel_alfabetizacao =
                                Some(ProximoNivelDe[state.nivel_alfabetizacao])]
           ELSE state
  IN [s EXCEPT !.fase = "exercicios_leitura",
               !.exercicio_numero = Some(Get(state.exercicio_numero, 1) + 1)]

\* a faulty help branch, which does not save the state
DecisionHelpUnsaved(state) == Res([state EXCEPT !.fase = "personalizado"], "modo_ajuda", 0)

\* the help branch of _handle_post_feedback_decision
DecisionHelp(state) == Res([state EXCEPT !.fase = "personalizado"], "modo_ajuda", 1)

\* a faulty unclear branch, which gives up and opens the help mode
DecisionUnclearGivingUp(state) ==
  Res([state EXCEPT !.fase = "personalizado"], "nao_entendi", 1)

\* the last branch of _handle_post_feedback_decision: the action is unclear
DecisionUnclear(state) == Res(state, "nao_entendi", 0)

\* _handle_post_feedback_decision, for one answer of the completion service
\* to the classifier
PostFeedbackDecisionFor(state, client, out) ==
  LET decision == decide_next_action(out)
      tag(r, a) == [r EXCEPT !.action = a,
                             !.increase = decision.increase_level = Some(TRUE)]
  IN IF decision.action = Act_help
     THEN {tag(DecisionHelp(state), "help")}
     ELSE IF decision.action = Act_exercise
     THEN {tag([r EXCEPT !.saves = r.saves + 1], "exercise")
           : r \in HandleReadingExercisesPhase(
                     PrepareNextExercise(state, decision.increase_level), client)}
     ELSE {tag(DecisionUnclear(state), "unknown")}

\* _handle_post_feedback_decision
HandlePostFeedbackDecision(state, user_message, client) ==
  UNION {PostFeedbackDecisionFor(state, client, out) : out \in DecisionOutcomes}

\* a faulty handler, which lets the failure of the completion out
HandlePersonalizedPhasePropagating(state, user_message) ==
  {[Res(state, "none", 0) EXCEPT !.raised = TRUE],
   [Res(state, "resposta_llm", 0) EXCEPT !.llm = "ok"],
   [Res(state, "none", 0) EXCEPT !.raised = TRUE, !.llm = "raise"]}

\* a faulty handler, which starts over when the completion fails
HandlePersonalizedPhaseStartingOver(state, user_message) ==
  {[Res(state, "none", 0) EXCEPT !.raised = TRUE],
   [Res(state, "resposta_llm", 0) EXCEPT !.llm = "ok"],
   [Res([state EXCEPT !.fase = "inicial"], "desculpa", 1) EXCEPT !.llm = "raise"]}

\* _handle_personalized_phase: the retrieval of context may raise (nothing
\* catches it); a failing completion is replaced by the apology
HandlePersonalizedPhase(state, user_message) ==
  {[Res(state, "none", 0) EXCEPT !.raised = TRUE],
   [Res(state, "resposta_llm", 0) EXCEPT !.llm = "ok"],
   [Res(state, "desculpa", 0) EXCEPT !.llm = "raise"]}

\* _route_by_phase
RouteByPhase(state, user_message, client) ==
  IF state.fase = "inicial" THEN HandleInitialPhase(state)
  ELSE IF state.fase = "aguardando_nome"
  THEN HandleNameCollectionPhase(state, user_message)
  ELSE IF state.fase = "solicitar_teste_leitura" THEN HandleTestRequestPhase(state)
  ELSE IF state.fase = "aguardando_teste_leitura"
  THEN HandleTestEvaluationPhase(state, user_message)
  ELSE IF state.fase = "exercicios_leitura"
  THEN HandleReadingExercisesPhase(state, client)
  ELSE IF state.fase = "aguardando_leitura_audio"
  THEN HandleReadingEvaluationPhase(state, user_message)
  ELSE IF state.fase = "aguardando_decisao_pos_feedback"
  THEN HandlePostFeedbackDecision(state, user_message, client)
  ELSE HandlePersonalizedPhase(state, user_message)

(***************************************************************************)
(* The operations on one user.  user_states is the cache of the state      *)
(* manager (<<>> when the user is not cached), disk the stored state file  *)
(* (<<>> when there is none), user_histories the cache of the history      *)
(* manager, hist the stored history file (empty when there is none),                   *)
(* user_vectorstores whether the vector store of the user exists, now the   *)
(* time in hours, and                                                      *)
(* openai_client whether reading_exercises could import its client.  last  *)
(* records the latest operation: what it was, the phase it was routed in,  *)
(* what the handler saw and what was returned.                             *)
(***************************************************************************)
Quiet ==
  [op |-> "init", outcome |-> "none", fase0 |-> "none", restarted |-> FALSE,
   reply |-> "none", saves |-> 0, msg |-> <<>>, info |-> NoInfo,
   action |-> "none", increase |-> FALSE, dificuldade |-> 0, llm |-> "none",
   should_generate |-> FALSE, words |-> <<>>, added |-> <<>>,
   saudacao |-> FALSE, args |-> <<>>, result |-> <<>>,
   status |-> "none", tipo |-> "none", texto |-> <<>>]

\* the entries of one user: in the cache and the file of the state manager,
\* in the cache and the file of the history manager, and in the vector store
StoreOf(us, d, uh, h, vs) ==
  [user_states |-> us, disk |-> d, user_histories |-> uh, hist |-> h,
   user_vectorstores |-> vs]

Init ==
  /\ user_states = <<>>
  /\ disk = <<>>
  /\ user_histories = <<>>
  /\ hist = <<>>
  /\ user_vectorstores = FALSE
  /\ now = 0
  /\ openai_client \in {"none", "ok"}
  /\ last = Quiet

\* the state the next operation will read
Cur == get_user_state(user_states, disk, now)

\* the history the next operation will read
CurHist == get_history(user_histories, hist)

\* the user messages of the history that no reply follows
Orphans(h) ==
  Cardinality({i \in 1..Len(h) :
                 h[i] = "user" /\ (i = Len(h) \/ h[i + 1] = "user")})

\* what generate_response did, for the record of the latest operation
TurnRecord(outcome, fase0, restarted, r, added, saudacao) ==
  [Quiet EXCEPT !.op = "turn", !.outcome = outcome, !.fase0 = fase0,
                !.added = added, !.saudacao = saudacao,
                !.restarted = restarted, !.reply = r.reply,
                !.saves = r.saves + (IF restarted THEN 1 ELSE 0),
                !.msg = r.msg, !.info = r.info, !.action = r.action,
                !.increase = r.increase, !.dificuldade = r.dificuldade,
                !.llm = r.llm]

\* generate_response over the entries st of the user, at time t, aborted by
\* the embedding call that indexes the inbound message: the message is in
\* the history, no handler has run.  The call fails when the vector store
\* is created (index_created false) or when the message is added to it.
generate_response_aborted(st, user_message, index_created, t) ==
  LET state0 == get_user_state(st.user_states, st.disk, t)
      history0 == get_history(st.user_histories, st.hist)
      restart == should_restart_conversation(state0, user_message, history0)
      state == IF restart THEN get_default_state(t) ELSE state0
      history == add_messages(history0, <<UserMessage>>)
  IN [store |-> StoreOf(Some(state), IF restart THEN Some(state) ELSE st.disk,
                        Some(history), history, index_created),
      record |-> [Quiet EXCEPT !.op = "turn", !.outcome = "raised",
                               !.restarted = restart,
                               !.saves = IF restart THEN 1 ELSE 0,
                               !.added = <<UserMessage>>,
                               !.saudacao = bare_greeting(state0, user_message)],
      raised |-> TRUE,
      exercicio |-> Get(state.exercicio_numero, 1)]

\* generate_response aborted before the routing, for the user of the model
TurnAbortedBeforeRouting(user_message, index_created) ==
  LET x == generate_response_aborted(StoreOf(user_states, disk, user_histories,
                                             hist, user_vectorstores),
                                     user_message, index_created, now)
  IN /\ Len(CurHist) + 2 <= MaxHist
     /\ Orphans(CurHist) < MaxAborted
     /\ user_vectorstores => index_created
     /\ user_states' = x.store.user_states
     /\ disk' = x.store.disk
     /\ user_histories' = x.store.user_histories
     /\ hist' = x.store.hist
     /\ user_vectorstores' = x.store.user_vectorstores
     /\ last' = x.record
     /\ UNCHANGED <<now, openai_client>>

\* generate_response over the entries st of the user, at time t, with the
\* inbound message indexed: what it leaves of the entries and what it did,
\* for every result of the handler of the phase.  The turn completes unless
\* the handler raises or the embedding call that indexes the reply raises.
generate_response(st, user_message, embed_reply_ok, client, t) ==
  LET state0 == get_user_state(st.user_states, st.disk, t)
      history0 == get_history(st.user_histories, st.hist)
      restart == should_restart_conversation(state0, user_message, history0)
      state == IF restart THEN get_default_state(t) ELSE state0
  IN {LET added == IF r.raised THEN <<UserMessage>>
                   ELSE <<UserMessage, AssistantMessage(r.reply)>>
          history == add_messages(history0, added)
      IN [store |-> StoreOf(Some(r.state),
                            IF r.saves > 0 THEN Some(r.state)
                            ELSE IF restart THEN Some(state) ELSE st.disk,
                            Some(history), history, TRUE),
          record |-> TurnRecord(IF r.raised \/ ~embed_reply_ok THEN "raised" ELSE "ok",
                                state.fase, restart, r, added,
                                bare_greeting(state0, user_message)),
          raised |-> r.raised,
          exercicio |-> Get(r.state.exercicio_numero, 1)]
      : r \in RouteByPhase(state, user_message, client)}

\* generate_response for the user of the model
TurnRouted(user_message, embed_reply_ok) ==
  /\ Len(CurHist) + 2 <= MaxHist
  /\ \E x \in generate_response(StoreOf(user_states, disk, user_histories, hist,
                                         user_vectorstores),
                                 user_message, embed_reply_ok, openai_client, now) :
       /\ x.exercicio <= MaxExercicio
       /\ x.raised => Orphans(CurHist) < MaxAborted /\ embed_reply_ok
       /\ user_states' = x.store.user_states
       /\ disk' = x.store.disk
       /\ user_histories' = x.store.user_histories
       /\ hist' = x.store.hist
       /\ user_vectorstores' = x.store.user_vectorstores
       /\ last' = x.record
  /\ UNCHANGED <<now, openai_client>>

\* should_generate_test_image over the entries st of the user, at time t
should_generate_test_image(st, t) ==
  LET state == get_user_state(st.user_states, st.disk, t)
      go == state.fase = "solicitar_teste_leitura"
      new == IF go THEN [state EXCEPT !.fase = "aguardando_teste_leitura"] ELSE state
  IN [store |-> [st EXCEPT !.user_states = Some(new),
                           !.disk = IF go THEN Some(new) ELSE st.disk],
      record |-> [Quiet EXCEPT !.op = "image", !.outcome = "ok",
                               !.fase0 = state.fase, !.should_generate = go,
                               !.saves = IF go THEN 1 ELSE 0,
                               !.words = IF go THEN new.palavras_teste ELSE <<>>]]

\* should_generate_test_image for the user of the model
ShouldGenerateTestImage ==
  LET x == should_generate_test_image(StoreOf(user_states, disk, user_histories,
                                              hist, user_vectorstores), now)
  IN /\ user_states' = x.store.user_states
     /\ disk' = x.store.disk
     /\ last' = x.record
     /\ UNCHANGED <<user_histories, hist, user_vectorstores, now, openai_client>>

\* a faulty clear_user_context, which leaves the history file
ClearUserContextKeepingHistoryFile ==
  /\ user_states' = <<>>
  /\ disk' = <<>>
  /\ user_histories' = <<>>
  /\ user_vectorstores' = FALSE
  /\ last' = [Quiet EXCEPT !.op = "clear", !.outcome = "ok", !.fase0 = Cur.fase]
  /\ UNCHANGED <<hist, now, openai_client>>

\* a faulty clear_user_context, which leaves the state of the user
clear_user_context_keeping_state(st, t) ==
  [store |-> [st EXCEPT !.user_histories = <<>>, !.hist = <<>>,
                        !.user_vectorstores = FALSE],
   record |-> [Quiet EXCEPT !.op = "clear", !.outcome = "ok",
                            !.fase0 = get_user_state(st.user_states, st.disk, t).fase]]

\* clear_user_context over the entries st of the user, at time t: nothing
\* is left in the caches nor on the disk; the record keeps the phase the
\* user was in
clear_user_context(st, t) ==
  [store |-> StoreOf(<<>>, <<>>, <<>>, <<>>, FALSE),
   record |-> [Quiet EXCEPT !.op = "clear", !.outcome = "ok",
                            !.fase0 = get_user_state(st.user_states, st.disk, t).fase]]

\* clear_user_context for the user of the model
ClearUserContext ==
  LET x == clear_user_context(StoreOf(user_states, disk, user_histories, hist,
                                      user_vectorstores), now)
  IN /\ user_states' = x.store.user_states
     /\ disk' = x.store.disk
     /\ user_histories' = x.store.user_histories
     /\ hist' = x.store.hist
     /\ user_vectorstores' = x.store.user_vectorstores
     /\ last' = x.record
     /\ UNCHANGED <<now, openai_client>>

Next ==
  \/ \E m \in Messages, c \in BOOLEAN : TurnAbortedBeforeRouting(m, c)
  \/ \E m \in Messages, ok \in BOOLEAN : TurnRouted(m, ok)
  \/ ShouldGenerateTestImage
  \/ ClearUserContext

Spec == Init /\ [][Next]_vars

(***************************************************************************)
(* The state store over time and over process restarts.  The process is    *)
(* constructed over the files an earlier process (or an operator) left at  *)
(* hour 0: a state file or none, a history file or none.  Time passes in   *)
(* steps of half a day or of a day and an hour; a restart of the process   *)
(* loses the caches and keeps the files.                                   *)
(***************************************************************************)
Durations == {12, 25}

\* a stored name
Ana == <<"A", "n", "a">>

\* the state files found: a record in the initial phase that still holds
\* personal fields, and the record of a user in the personalized phase
StoredRecords ==
  {[DefaultState EXCEPT !.nome = Some(Ana), !.idade = Some(7),
                        !.nivel_alfabetizacao = Some(Avancado),
                        !.palavras_teste = palavras_basico,
                        !.acertos = 4, !.total_testes = 4],
   [DefaultState EXCEPT !.fase = "personalizado", !.nome = Some(Ana),
                        !.idade = Some(7),
                        !.nivel_alfabetizacao = Some(Intermediario),
                        !.palavras_teste = palavras_basico,
                        !.acertos = 2, !.total_testes = 4,
                        !.exercicio_numero = Some(1),
                        !.texto_atual = Some(BankIntermediario[1].texto),
                        !.texto_titulo = Some(BankIntermediario[1].titulo)]}

\* the history files found: none, or one turn
StoredHistories == {<<>>, <<"user", "assistant">>}

\* the messages sent
StoredMessages == {MsgOi, MsgBia30}

InitStored ==
  /\ user_states = <<>>
  /\ disk \in {<<>>} \cup {Some(r) : r \in StoredRecords}
  /\ user_histories = <<>>
  /\ hist \in StoredHistories
  /\ user_vectorstores = (hist # <<>>)
  /\ now \in Durations
  /\ openai_client = "none"
  /\ last = Quiet

\* time passes while the process runs
Wait(d) ==
  /\ now + d <= MaxNow
  /\ now' = now + d
  /\ last' = [Quiet EXCEPT !.op = "wait"]
  /\ UNCHANGED <<user_states, disk, user_histories, hist, user_vectorstores,
                 openai_client>>

\* the process stops and, d hours later, is constructed again: the caches
\* of UserStateManager and ConversationHistoryManager are empty
ProcessRestart(d) ==
  /\ now + d <= MaxNow
  /\ now' = now + d
  /\ user_states' = <<>>
  /\ user_histories' = <<>>
  /\ last' = [Quiet EXCEPT !.op = "restart"]
  /\ UNCHANGED <<disk, hist, user_vectorstores, openai_client>>

NextStored ==
  \/ \E m \in StoredMessages : TurnRouted(m, TRUE)
  \/ ShouldGenerateTestImage
  \/ ClearUserContext
  \/ \E d \in Durations : Wait(d)
  \/ \E d \in Durations \cup {0} : ProcessRestart(d)

SpecStored == InitStored /\ [][NextStored]_vars

\* the same process constructed with no file of the user: a new user, over
\* time and over restarts of the process
InitNewUser == InitStored /\ disk = <<>> /\ hist = <<>>

SpecNewUser == InitNewUser /\ [][NextStored]_vars

(***************************************************************************)
(* Two users of one process.  Here the variables are the dictionaries and  *)
(* the directories themselves: user_states, user_histories and             *)
(* user_vectorstores of the three managers and the files of the two        *)
(* directories, each a function from the user id (the number without what  *)
(* follows "@") to the entry of that user.  An operation for a user reads  *)
(* the entries under its id and writes them back under that id.            *)
(***************************************************************************)
Users == {"A", "B"}

\* the messages sent
UsersMessages == {MsgOi, MsgBia30}

\* the entries under the id u
UserStore(u) ==
  StoreOf(user_states[u], disk[u], user_histories[u], hist[u], user_vectorstores[u])

\* faulty stores, which keep one entry for all the users
PutForAll(u, st) ==
  /\ user_states' = [v \in Users |-> st.user_states]
  /\ disk' = [v \in Users |-> st.disk]
  /\ user_histories' = [v \in Users |-> st.user_histories]
  /\ hist' = [v \in Users |-> st.hist]
  /\ user_vectorstores' = [v \in Users |-> st.user_vectorstores]

\* the entries st written under the id u: self.user_states[user_id], the
\* file <user_id>.json of each directory, the index directory <user_id>
Put(u, st) ==
  /\ user_states' = [user_states EXCEPT ![u] = st.user_states]
  /\ disk' = [disk EXCEPT ![u] = st.disk]
  /\ user_histories' = [user_histories EXCEPT ![u] = st.user_histories]
  /\ hist' = [hist EXCEPT ![u] = st.hist]
  /\ user_vectorstores' = [user_vectorstores EXCEPT ![u] = st.user_vectorstores]

InitUsers ==
  /\ user_states = [u \in Users |-> <<>>]
  /\ disk = [u \in Users |-> <<>>]
  /\ user_histories = [u \in Users |-> <<>>]
  /\ hist = [u \in Users |-> <<>>]
  /\ user_vectorstores = [u \in Users |-> FALSE]
  /\ now = 0
  /\ openai_client = "none"
  /\ last = [user |-> "none", record |-> Quiet]

\* the results of a turn of u that the bounds of the model allow
UserTurnResults(u, user_message) ==
  LET history0 == get_history(user_histories[u], hist[u])
  IN {x \in generate_response(UserStore(u), user_message, TRUE, openai_client, now) :
        /\ Len(history0) + 2 <= MaxUsersHist
        /\ x.exercicio <= MaxExercicio
        /\ x.raised => Orphans(history0) < MaxAborted}

\* generate_response for the user u
UserTurn(u, user_message) ==
  /\ \E x \in UserTurnResults(u, user_message) :
       Put(u, x.store) /\ last' = [user |-> u, record |-> x.record]
  /\ UNCHANGED <<now, openai_client>>

\* should_generate_test_image for the user u
UserImage(u) ==
  LET x == should_generate_test_image(UserStore(u), now)
  IN /\ Put(u, x.store)
     /\ last' = [user |-> u, record |-> x.record]
     /\ UNCHANGED <<now, openai_client>>

\* clear_user_context for the user u
UserClear(u) ==
  LET x == clear_user_context(UserStore(u), now)
  IN /\ Put(u, x.store)
     /\ last' = [user |-> u, record |-> x.record]
     /\ UNCHANGED <<now, openai_client>>

NextUsers ==
  \/ \E u \in Users, m \in UsersMessages : UserTurn(u, m)
  \/ \E u \in Users : UserImage(u)
  \/ \E u \in Users : UserClear(u)

SpecUsers == InitUsers /\ [][NextUsers]_vars

(***************************************************************************)
(* routes/audio.py: the requests of one new user.  A request ends with a   *)
(* response of status ok or, when anything raises, with the HTTP error 500 *)
(* that the handler makes of it; what the calls before the failure wrote   *)
(* stays written.  The fault of a request is where it fails: before the    *)
(* turn (decoding, transcription, the transcript file), in the embedding   *)
(* call that creates the index or indexes the inbound message, in the one  *)
(* that indexes the reply, or in the rendering of the image and the        *)
(* synthesis of the speech that follow the queries.                        *)
(***************************************************************************)
Faults == {"none", "transcricao", "indice_novo", "indice_entrada", "indice_resposta", "midia"}

\* the messages sent
RoutesMessages == {MsgOi, MsgBia30, MsgCasa2}

\* ConversationManager.should_generate_reading_text over the entries st
should_generate_reading_text(st, t) ==
  LET state == get_user_state(st.user_states, st.disk, t)
      go == state.fase = "aguardando_leitura_audio"
  IN [store |-> [st EXCEPT !.user_states = Some(state)],
      should_generate |-> go,
      texto |-> IF go THEN Get(state.texto_atual, <<>>) ELSE <<>>,
      titulo |-> IF go THEN Get(state.texto_titulo, "Texto") ELSE "none"]

\* the HTTP error 500 of a request that left the entries st
HttpError(st, record) ==
  [store |-> st,
   record |-> [record EXCEPT !.op = "processar_base64", !.status = "erro"]]

\* processar_audio_base64 after generate_response returned x: the query for
\* the test image, then the query for the reading text, then the image and
\* the speech of the response
AfterGenerateResponse(x, fault, t) ==
  LET test == should_generate_test_image(x.store, t)
      reading == should_generate_reading_text(test.store, t)
      record == [x.record EXCEPT !.op = "processar_base64",
                                 !.should_generate = test.record.should_generate,
                                 !.words = test.record.words,
                                 !.saves = x.record.saves + test.record.saves]
      ok(st, tipo, texto) ==
        IF fault = "midia" THEN HttpError(st, record)
        ELSE [store |-> st,
              record |-> [record EXCEPT !.status = "ok", !.tipo = tipo,
                                        !.texto = texto]]
  IN IF test.record.should_generate
     THEN ok(test.store, "imagem_com_audio", <<>>)
     ELSE IF reading.should_generate
     THEN ok(reading.store, "exercicio_leitura", reading.texto)
     ELSE ok(reading.store, "audio", <<>>)

\* processar_audio_base64 over the entries st of the user, at time t: what
\* it leaves of the entries and what it returns, for every result of the
\* turn
processar_audio_base64(st, user_message, fault, client, t) ==
  IF fault = "transcricao" THEN {HttpError(st, Quiet)}
  ELSE IF fault \in {"indice_novo", "indice_entrada"}
  THEN LET x == generate_response_aborted(st, user_message,
                                          fault = "indice_entrada", t)
       IN {HttpError(x.store, x.record)}
  ELSE {IF x.record.outcome = "raised" THEN HttpError(x.store, x.record)
        ELSE AfterGenerateResponse(x, fault, t)
        : x \in generate_response(st, user_message, fault # "indice_resposta",
                                  client, t)}

\* reiniciar_conversa: ConversationManager has no attribute _get_user_state
\* (nor _save_user_state), so the second statement of the handler raises
\* AttributeError before anything is read or written
reiniciar_conversa(st, t) ==
  [store |-> st,
   record |-> [Quiet EXCEPT !.op = "reiniciar_conversa", !.outcome = "raised",
                            !.status = "erro",
                            !.fase0 = get_user_state(st.user_states, st.disk, t).fase]]

\* limpar_contexto
limpar_contexto(st, t) ==
  LET x == clear_user_context(st, t)
  IN [store |-> x.store,
      record |-> [x.record EXCEPT !.op = "limpar_contexto", !.status = "ok"]]

\* the entries st and the record written for the user of the model
Leaves(x) ==
  /\ user_states' = x.store.user_states
  /\ disk' = x.store.disk
  /\ user_histories' = x.store.user_histories
  /\ hist' = x.store.hist
  /\ user_vectorstores' = x.store.user_vectorstores
  /\ last' = x.record
  /\ UNCHANGED <<now, openai_client>>

\* POST /audio/processar_base64
ProcessarBase64(user_message, fault) ==
  LET st == StoreOf(user_states, disk, user_histories, hist, user_vectorstores)
  IN /\ Len(CurHist) + 2 <= MaxRoutesHist
     /\ fault = "indice_novo" => ~user_vectorstores
     /\ \E x \in processar_audio_base64(st, user_message, fault, openai_client, now) :
          /\ Get(get_user_state(x.store.user_states, x.store.disk, now).exercicio_numero,
                 1) <= MaxExercicio
          /\ Orphans(x.store.hist) <= MaxAborted
          /\ Leaves(x)

\* POST /audio/reiniciar_conversa/{numero}
ReiniciarConversa ==
  Leaves(reiniciar_conversa(StoreOf(user_states, disk, user_histories, hist,
                                    user_vectorstores), now))

\* DELETE /audio/limpar_contexto/{numero}
LimparContexto ==
  Leaves(limpar_contexto(StoreOf(user_states, disk, user_histories, hist,
                                 user_vectorstores), now))

InitRoutes ==
  /\ user_states = <<>>
  /\ disk = <<>>
  /\ user_histories = <<>>
  /\ hist = <<>>
  /\ user_vectorstores = FALSE
  /\ now = 0
  /\ openai_client = "none"
  /\ last = Quiet

NextRoutes ==
  \/ \E m \in RoutesMessages, f \in Faults : ProcessarBase64(m, f)
  \/ ReiniciarConversa
  \/ LimparContexto

SpecRoutes == InitRoutes /\ [][NextRoutes]_vars

(***************************************************************************)
(* The readers and the pure functions called on their own, over inputs     *)
(* that the conversation of one new user does not produce: a history read  *)
(* with a limit, the generator called for every level and exercise number, *)
(* the scoring of utterances against word lists, the classifier over every *)
(* answer of the completion service, and the loaders over files that are   *)
(* missing or unreadable.  The record of the call holds its arguments and   *)
(* what it returned.                                                       *)
(***************************************************************************)
\* services/vectorstore_manager.py, _get_or_create_vectorstore: the cached
\* store; else the stored index when FAISS can load it; else, with no index
\* file or an unreadable one, a new store holding the seed document, for
\* which the embedding call has to succeed
get_or_create_vectorstore(cached, index_file, embed_ok) ==
  IF cached THEN [raised |-> FALSE, store |-> "cached"]
  ELSE IF index_file = "readable" THEN [raised |-> FALSE, store |-> "loaded"]
  ELSE IF embed_ok THEN [raised |-> FALSE, store |-> "seed_only"]
  ELSE [raised |-> TRUE, store |-> "none"]

\* a stored history of four messages, and its beginnings
FourMessages ==
  <<UserMessage, AssistantMessage("saudacao"), UserMessage,
    AssistantMessage("pedir_idade")>>
CallHistories == {SubSeq(FourMessages, 1, n) : n \in 0..Len(FourMessages)}
Limits == {None} \cup {Some(n) : n \in 0..MaxLimit}

\* "casa casa casa casa"
MsgCasaCasa ==
  <<"c","a","s","a"," ","c","a","s","a"," ","c","a","s","a"," ","c","a","s","a">>
Utterances == Messages \cup {MsgCasaCasa}
\* "SOL", the exercise of one word
MsgSol ==
  <<"S","O","L">>
\* the passages read aloud, and what is heard
Passages == {MsgSol, MsgCasa2, MsgCasa4}
Readings == Utterances \cup {MsgSol}
ExpectedLists == WordLists \cup {<< <<"S","O","L">> >>}

\* the states of a user who is asked what to do after the feedback
DecisionStates ==
  {[r EXCEPT !.fase = "aguardando_decisao_pos_feedback"] :
     r \in {x \in StoredRecords : x.fase = "personalizado"}}

StateFiles == {MissingFile, UnreadableFile} \cup {RecordFile(r) : r \in StoredRecords}
IndexFiles == {"missing", "unreadable", "readable"}

InitCalls ==
  /\ user_states = <<>>
  /\ disk = <<>>
  /\ user_histories = <<>>
  /\ hist = <<>>
  /\ user_vectorstores = FALSE
  /\ now \in Durations
  /\ openai_client \in {"none", "ok"}
  /\ last = Quiet

Called(op, args, result) ==
  /\ last' = [Quiet EXCEPT !.op = op, !.outcome = "ok", !.args = args,
                           !.result = result]
  /\ UNCHANGED <<user_states, disk, user_histories, hist, user_vectorstores,
                 now, openai_client>>

\* get_history(user_id, limit) over a stored history
CallGetHistory(history, limit) ==
  Called("get_history", <<history, limit>>, get_history_limit(history, limit))

\* generate_dynamic_reading_challenge(nivel, exercicio_num)
CallGenerate(nivel, exercicio_num, out) ==
  Called("generate", <<nivel, exercicio_num, out>>,
         generate_dynamic_reading_challenge(openai_client, nivel, exercicio_num, out))

\* analyze_reading_level(user_response, expected_words)
CallAnalyze(user_response, expected_words) ==
  Called("analyze", <<user_response, expected_words>>,
         analyze_reading_level(user_response, expected_words))

\* analyze_reading_attempt(texto_esperado, texto_lido)
CallAnalyzeAttempt(texto_esperado, texto_lido) ==
  Called("analyze_attempt", <<texto_esperado, texto_lido>>,
         analyze_reading_attempt(texto_esperado, texto_lido))

\* _decide_next_action
CallDecide(out) == Called("decide", <<out>>, decide_next_action(out))

\* _handle_post_feedback_decision over one answer of the completion service
CallPostFeedbackDecision(state, out) ==
  Called("post_feedback", <<state, out>>,
         PostFeedbackDecisionFor(state, openai_client, out))

\* _load_user_state
CallLoadUserState(file) ==
  Called("load_state", <<file>>, load_user_state(file, now))

\* _get_or_create_vectorstore of a user whose store is not cached
CallGetOrCreateVectorstore(index_file, embed_ok) ==
  Called("load_index", <<index_file, embed_ok>>,
         get_or_create_vectorstore(FALSE, index_file, embed_ok))

NextCalls ==
  \/ \E h \in CallHistories, l \in Limits : CallGetHistory(h, l)
  \/ \E n \in Niveis, e \in 1..MaxCallExercicio, out \in GenOutcomes :
       CallGenerate(n, e, out)
  \/ \E m \in Utterances, w \in ExpectedLists : CallAnalyze(m, w)
  \/ \E e \in Passages, l \in Readings : CallAnalyzeAttempt(e, l)
  \/ \E out \in DecisionOutcomes : CallDecide(out)
  \/ \E state \in DecisionStates, out \in DecisionOutcomes :
       CallPostFeedbackDecision(state, out)
  \/ \E f \in StateFiles : CallLoadUserState(f)
  \/ \E f \in IndexFiles, ok \in BOOLEAN : CallGetOrCreateVectorstore(f, ok)

SpecCalls == InitCalls /\ [][NextCalls]_vars

(***************************************************************************)
(* Properties.                                                             *)
(***************************************************************************)
IsTurn(l) == l.op = "turn"
Handled(l, fase) == l.op = "turn" /\ l.fase0 = fase
Completed(l) == l.op = "turn" /\ l.outcome = "ok"

\* C1: a completed turn that starts in initial returns the fixed greeting and
\* ends in aguardando_nome; one that starts in aguardando_teste_leitura ends
\* in exercicios_leitura; one that starts in exercicios_leitura stores a text
\* and a title and ends in aguardando_leitura_audio; one that starts in
\* aguardando_leitura_audio ends in aguardando_decisao_pos_feedback; whatever
\* the message and whatever the completion service answers.
C1_PhasesAdvanceByOneStep ==
  Completed(last) =>
    /\ last.fase0 = "inicial" =>
         Cur.fase = "aguardando_nome" /\ last.reply = "saudacao"
    /\ last.fase0 = "aguardando_teste_leitura" => Cur.fase = "exercicios_leitura"
    /\ last.fase0 = "exercicios_leitura" =>
         /\ Cur.fase = "aguardando_leitura_audio"
         /\ ~IsNone(Cur.texto_atual) /\ ~IsNone(Cur.texto_titulo)
    /\ last.fase0 = "aguardando_leitura_audio" =>
         Cur.fase = "aguardando_decisao_pos_feedback"
\* a reading was evaluated while the completion service failed
C1_Witness ==
  /\ Completed(last) /\ last.fase0 = "aguardando_leitura_audio"
  /\ last.llm = "raise" /\ Cur.fase = "aguardando_decisao_pos_feedback"

\* C2: a turn handled in aguardando_nome ends in solicitar_teste_leitura if
\* and only if the name and the age are both known once what the extractor
\* found in the message is merged, and the test words are then the basic
\* list; in every other case the phase stays aguardando_nome.
C2_TestRequestedIffProfileComplete ==
  [][Handled(last', "aguardando_nome") =>
       LET both == /\ ~IsNone(Cur.nome) \/ ~IsNone(last'.info.nome)
                   /\ ~IsNone(Cur.idade) \/ ~IsNone(last'.info.idade)
       IN /\ Cur.fase = "aguardando_nome"
          /\ Cur'.fase = "solicitar_teste_leitura" <=> both
          /\ both => Cur'.palavras_teste = palavras_basico
          /\ ~both => Cur'.fase = "aguardando_nome"]_vars
\* the age came in a later message than the name
C2_Witness ==
  /\ Handled(last, "aguardando_nome") /\ IsNone(last.info.nome)
  /\ ~IsNone(last.info.idade) /\ Cur.fase = "solicitar_teste_leitura"
  /\ Cur.palavras_teste = palavras_basico

\* C3: in aguardando_nome a stored name is never overwritten, nor a stored
\* age, whatever the extractor finds in later messages.
C3_KnownValuesKept ==
  [][Handled(last', "aguardando_nome") =>
       /\ ~IsNone(Cur.nome) => Cur'.nome = Cur.nome
       /\ ~IsNone(Cur.idade) => Cur'.idade = Cur.idade]_vars
\* the extractor found another name than the stored one
C3_Witness ==
  /\ Handled(last, "aguardando_nome") /\ ~IsNone(last.info.nome)
  /\ ~IsNone(Cur.nome) /\ Cur.nome # last.info.nome

\* C4: the handler of solicitar_teste_leitura leaves the phase alone; only
\* should_generate_test_image moves a user from solicitar_teste_leitura to
\* aguardando_teste_leitura; it answers should_generate with the stored
\* words exactly when the phase is solicitar_teste_leitura, and otherwise
\* answers false and leaves the state as it is, so that two calls in a row
\* never both answer true.
C4_OnlyTheImageQueryStartsTheTest ==
  [][/\ Handled(last', "solicitar_teste_leitura") => Cur' = Cur
     /\ (Cur.fase = "solicitar_teste_leitura" /\ Cur'.fase = "aguardando_teste_leitura")
          => last'.op = "image"
     /\ last'.op = "image" =>
          /\ last'.should_generate <=> Cur.fase = "solicitar_teste_leitura"
          /\ last'.should_generate =>
               /\ Cur' = [Cur EXCEPT !.fase = "aguardando_teste_leitura"]
               /\ last'.words = Cur.palavras_teste
          /\ ~last'.should_generate => Cur' = Cur
          /\ (last.op = "image" /\ last.should_generate) => ~last'.should_generate]_vars
\* the query answered true with the four basic words
C4_Witness ==
  /\ last.op = "image" /\ last.should_generate /\ last.words = palavras_basico
  /\ Cur.fase = "aguardando_teste_leitura"

\* C5: after a turn handled in aguardando_teste_leitura the state holds the
\* hits and the total that scoring the message against the stored test words
\* gives, the exercise counter is 1, and the level is advanced when four
\* words or more were right and else the level the rate classifies to.
C5_TestResultStored ==
  Handled(last, "aguardando_teste_leitura") =>
    LET res == ReadingLevel[last.msg][Cur.palavras_teste]
    IN /\ Cur.acertos = res.acertos
       /\ Cur.total_testes = res.total
       /\ Cur.exercicio_numero = Some(1)
       /\ Cur.acertos >= 4 => Cur.nivel_alfabetizacao = Some(Avancado)
       /\ Cur.acertos < 4 =>
            Cur.nivel_alfabetizacao = Some(ClassifyLevel(Cur.acertos, Cur.total_testes))
\* a word said five times: more hits than words
C5_Witness ==
  /\ Handled(last, "aguardando_teste_leitura") /\ Cur.acertos > Cur.total_testes
  /\ Cur.total_testes = 4 /\ Cur.nivel_alfabetizacao = Some(Avancado)

\* C6 as stated: a turn handled in aguardando_decisao_pos_feedback ends in
\* personalizado when the action is help, in exercicios_leitura when it is
\* another exercise, and changes nothing of the state when it is unclear.
C6_AsStated ==
  [][Handled(last', "aguardando_decisao_pos_feedback") =>
       \/ last'.action = "help" /\ Cur'.fase = "personalizado"
       \/ last'.action = "exercise" /\ Cur'.fase = "exercicios_leitura"
       \/ last'.action = "unknown" /\ Cur' = Cur]_vars
\* C6 amended: a turn handled in aguardando_decisao_pos_feedback ends in
\* personalizado when the action is help, in aguardando_leitura_audio (the
\* next exercise is produced in the same turn) when it is another exercise,
\* and changes nothing of the state when it is unclear.
C6_DecisionChoosesThePhase ==
  [][Handled(last', "aguardando_decisao_pos_feedback") =>
       \/ last'.action = "help" /\ Cur'.fase = "personalizado"
       \/ last'.action = "exercise" /\ Cur'.fase = "aguardando_leitura_audio"
       \/ last'.action = "unknown" /\ Cur' = Cur]_vars
\* another exercise was asked for
C6_Witness ==
  /\ Handled(last, "aguardando_decisao_pos_feedback") /\ last.action = "exercise"
  /\ Cur.fase = "aguardando_leitura_audio"

\* the tiers of the levels
Rank(nivel) ==
  IF nivel = Some(Avancado) THEN 3 ELSE IF nivel = Some(Intermediario) THEN 2 ELSE 1

\* C7: when the decision is another exercise with increase_level true the
\* level moves up one tier and is capped at advanced (beginner becomes
\* intermediate, intermediate becomes advanced, advanced stays advanced),
\* and no turn handled in aguardando_decisao_pos_feedback lowers the level.
C7_LevelUpOneTierCapped ==
  [][Handled(last', "aguardando_decisao_pos_feedback") =>
       /\ (last'.action = "exercise" /\ last'.increase) =>
            Cur'.nivel_alfabetizacao =
              IF Rank(Cur.nivel_alfabetizacao) = 1 THEN Some(Intermediario)
              ELSE Some(Avancado)
       /\ Rank(Cur'.nivel_alfabetizacao) >= Rank(Cur.nivel_alfabetizacao)]_vars

\* C8: the exercise number is 1 after the test, every decision for another
\* exercise adds exactly 1 to it and stores, in the same turn, a text
\* generated for the new number, and no other turn or query changes it.
C8_ExerciseNumberCounts ==
  [][/\ last'.op = "image" => Cur'.exercicio_numero = Cur.exercicio_numero
     /\ (IsTurn(last') /\ ~last'.restarted) =>
          IF last'.fase0 = "aguardando_teste_leitura"
          THEN Cur'.exercicio_numero = Some(1)
          ELSE IF last'.fase0 = "aguardando_decisao_pos_feedback" /\ last'.action = "exercise"
          THEN /\ ~IsNone(Cur.exercicio_numero)
               /\ Cur'.exercicio_numero = Some(Val(Cur.exercicio_numero) + 1)
               /\ \E out \in GenOutcomes :
                    Cur'.texto_atual =
                      Some(TextoInfo(openai_client, Cur'.nivel_alfabetizacao,
                                     Val(Cur'.exercicio_numero), out).texto)
          ELSE Cur'.exercicio_numero = Cur.exercicio_numero]_vars
\* the second exercise, with the second text of the beginner bank
C8_Witness ==
  /\ Handled(last, "aguardando_decisao_pos_feedback") /\ last.action = "exercise"
  /\ Cur.exercicio_numero = Some(2)
  /\ Cur.texto_atual = Some(BankIniciante[2].texto)

\* C9: for a user whose level is advanced the exercise the handler of
\* exercicios_leitura produces follows the advanced rule, difficulty 3, and
\* is never the single word of a beginner, whatever the generator does.
C9_AdvancedGetsAdvancedExercise ==
  (IsTurn(last) /\ last.reply = "exercicio" /\ Cur.nivel_alfabetizacao = Some(Avancado)) =>
    /\ last.dificuldade = 3
    /\ Len(Val(Cur.texto_atual)) > 1

\* C10: once the phase is personalizado every turn that does not restart the
\* conversation leaves it personalizado and leaves the name, the age, the
\* level and the scores as they are, whatever the message and whether or not
\* the completion service fails.
C10_PersonalizedIsSteady ==
  [][(IsTurn(last') /\ Cur.fase = "personalizado" /\ ~last'.restarted) =>
       /\ Cur'.fase = "personalizado"
       /\ Cur'.nome = Cur.nome /\ Cur'.idade = Cur.idade
       /\ Cur'.nivel_alfabetizacao = Cur.nivel_alfabetizacao
       /\ Cur'.acertos = Cur.acertos /\ Cur'.total_testes = Cur.total_testes]_vars
\* the completion failed in a personalized turn, answered by the apology
C10_Witness ==
  /\ Completed(last) /\ last.fase0 = "personalizado" /\ last.llm = "raise"
  /\ last.reply = "desculpa" /\ Cur.fase = "personalizado"

\* C11: a turn resets the state exactly when, at its start, the phase is
\* personalizado, the message (trimmed, in lower case) is one of the bare
\* greetings and the history is empty; the default state is then stored
\* before the routing, the turn answers the fixed greeting and ends in
\* aguardando_nome with no name, no age and no level.
C11_RestartOnBareGreeting ==
  [][IsTurn(last') =>
       /\ last'.restarted <=>
            (Cur.fase = "personalizado" /\ last'.saudacao /\ CurHist = <<>>)
       /\ last'.restarted =>
            /\ last'.fase0 = "inicial" /\ last'.reply = "saudacao"
            /\ last'.saves = 2
            /\ Cur'.fase = "aguardando_nome"
            /\ IsNone(Cur'.nome) /\ IsNone(Cur'.idade)
            /\ IsNone(Cur'.nivel_alfabetizacao)
            /\ disk' = Some(Cur')]_vars
\* a user stored in personalizado greets, and no history is stored
C11_Witness ==
  /\ IsTurn(last) /\ last.restarted /\ last.reply = "saudacao"
  /\ Cur.fase = "aguardando_nome" /\ IsNone(Cur.nome)
  /\ hist = <<"user", "assistant">>

\* the state-store writes of a completed turn, by branch
SavesOf(l) ==
  IF l.restarted THEN 2
  ELSE IF l.fase0 \in {"solicitar_teste_leitura", "personalizado"} THEN 0
  ELSE IF l.fase0 = "aguardando_decisao_pos_feedback"
  THEN (IF l.action = "help" THEN 1 ELSE IF l.action = "exercise" THEN 2 ELSE 0)
  ELSE 1

\* C12 as stated: every completed turn writes the state store exactly once,
\* in every phase and on every branch of every handler.
C12_AsStated == Completed(last) => last.saves = 1
\* C12 amended: a completed turn writes the state store once in the phases
\* inicial, aguardando_nome, aguardando_teste_leitura, exercicios_leitura
\* and aguardando_leitura_audio and on the help decision; it does not write
\* in solicitar_teste_leitura, in personalizado and on an unclear decision;
\* it writes twice on the decision for another exercise and when the
\* restart rule resets the state.
C12_SavesByBranch == Completed(last) => last.saves = SavesOf(last)
\* a completed personalized turn that wrote nothing
C12_Witness ==
  /\ Completed(last) /\ last.fase0 = "personalizado"
  /\ last.reply = "resposta_llm" /\ last.saves = 0

\* C13: a turn stores the inbound message, with the role user, before the
\* handler runs; a completed turn adds exactly two messages to the history,
\* the inbound message and then the reply with the role assistant, whose
\* content is the text returned.
C13_TwoMessagesPerTurn ==
  [][IsTurn(last') =>
       /\ Len(hist') > Len(CurHist) /\ hist'[Len(CurHist) + 1] = "user"
       /\ Completed(last') =>
            /\ last'.reply # "none"
            /\ last'.added = <<UserMessage, AssistantMessage(last'.reply)>>
            /\ hist' = CurHist \o <<"user", "assistant">>
       /\ last'.reply = "none" => hist' = CurHist \o <<"user">>]_vars
\* the exercise was the reply of a later turn
C13_Witness ==
  /\ Completed(last) /\ last.added = <<UserMessage, AssistantMessage("exercicio")>>
  /\ Len(hist) >= 6 /\ hist[Len(hist) - 1] = "user" /\ hist[Len(hist)] = "assistant"

\* C14: when the completion fails in a personalized turn the handler answers
\* the fixed apology, the phase stays personalizado, and the apology is
\* added to the history as the reply of the assistant.
C14_ApologyOnFailure ==
  [][(Handled(last', "personalizado") /\ last'.llm = "raise") =>
       /\ last'.reply = "desculpa"
       /\ Cur'.fase = "personalizado"
       /\ last'.added = <<UserMessage, AssistantMessage("desculpa")>>
       /\ hist' = CurHist \o <<"user", "assistant">>]_vars
\* the apology is the last message of the history
C14_Witness ==
  /\ Handled(last, "personalizado") /\ last.llm = "raise" /\ last.outcome = "ok"
  /\ last.added[2] = AssistantMessage("desculpa")
  /\ hist[Len(hist)] = "assistant"

\* C15: no failure of a completion or embedding call reaches the caller of
\* generate_response: every turn returns a reply.
C15_NoFailureReachesTheCaller == IsTurn(last) => last.outcome = "ok"

\* a state without its time of last access
Profile(state) == [state EXCEPT !.ultimo_acesso = 0]

\* what a process constructed now would read
Reloaded == get_user_state(<<>>, disk, now)

\* C16: whatever the other fields of a stored record in the phase inicial
\* hold, get_user_state returns a state with no name, no age, no level, no
\* test words and both scores 0.
C16_InitialIsClean ==
  Cur.fase = "inicial" =>
    /\ IsNone(Cur.nome) /\ IsNone(Cur.idade) /\ IsNone(Cur.nivel_alfabetizacao)
    /\ Cur.palavras_teste = <<>>
    /\ Cur.acertos = 0 /\ Cur.total_testes = 0
\* a stored record in the phase inicial that holds a name, read before it
\* is expired by a query that leaves the file as it is
C16_Witness ==
  /\ last.op = "image" /\ disk # <<>> /\ Val(disk).fase = "inicial"
  /\ ~IsNone(Val(disk).nome) /\ Val(disk).acertos = 4
  /\ ~is_conversation_expired(Val(disk), now)
  /\ user_states # <<>> /\ IsNone(Val(user_states).nome)

\* C17: a read of a profile whose time of last access is more than 24 hours
\* before now returns the default state, whether the record is in the cache
\* or is loaded from the disk.
C17_ExpiredReadsAsDefault ==
  LET held == IF user_states # <<>> THEN user_states ELSE disk
  IN (held # <<>> /\ now - Val(held).ultimo_acesso > ExpiryHours) =>
       Profile(Cur) = Profile(DefaultState)

\* C18 as stated: a state that was saved is read again equal to the one
\* saved, from the cache and, within the expiry window, from the disk after
\* the cache is lost.
C18_AsStated ==
  [][(user_states # <<>> /\ disk = user_states) =>
       /\ last'.op = "wait" => Cur' = Val(disk)
       /\ (last'.op = "restart" /\ now' - Val(disk).ultimo_acesso <= ExpiryHours) =>
            Cur' = Val(disk)]_vars
\* C18 amended: a state that was saved is read again equal to the one saved
\* from the cache; from the disk after the cache is lost, while no more than
\* 24 hours have passed since the stored time of last access, it is read
\* equal in every field but the time of last access, which is the time of
\* the read.
C18_RoundTrip ==
  [][(user_states # <<>> /\ disk = user_states) =>
       /\ last'.op = "wait" => Cur' = Val(disk)
       /\ (last'.op = "restart" /\ now' - Val(disk).ultimo_acesso <= ExpiryHours) =>
            Cur' = [Val(disk) EXCEPT !.ultimo_acesso = now']]_vars
\* a state a turn saved is read from the disk a full day after its stored
\* time of last access
C18_Witness ==
  /\ last.op = "restart" /\ user_states = <<>> /\ disk # <<>>
  /\ Val(disk).fase = "aguardando_nome"
  /\ now - Val(disk).ultimo_acesso = ExpiryHours
  /\ Cur.fase = "aguardando_nome" /\ Cur.ultimo_acesso = now

\* C19: after clear_user_context, whatever the phase was, nothing of the
\* user is cached or stored: the state read is the default state, the
\* history read is empty, there is no vector store, and the next turn that
\* is routed is handled in the phase inicial.
C19_ClearRemovesEverything ==
  /\ [](last.op = "clear" =>
          /\ user_states = <<>> /\ disk = <<>>
          /\ user_histories = <<>> /\ hist = <<>>
          /\ ~user_vectorstores
          /\ Cur = get_default_state(now) /\ CurHist = <<>>)
  /\ [][(last.op = "clear" /\ IsTurn(last') /\ last'.fase0 # "none") =>
          /\ last'.fase0 = "inicial" /\ ~last'.restarted
          /\ last'.reply = "saudacao"]_vars
\* the context of a user in the personalized phase was cleared
C19_Witness ==
  /\ last.op = "clear" /\ last.fase0 = "personalizado"
  /\ Cur.fase = "inicial" /\ CurHist = <<>>

IsPrefix(a, b) == Len(a) <= Len(b) /\ SubSeq(b, 1, Len(a)) = a

\* C23: whatever happens but a clear of the context (a turn, a query, the
\* expiry of the state, the restart rule, a restart of the process), the
\* history stored before is the beginning of the history stored after, and
\* so is the history read: messages are added at the end and none is
\* changed or removed.
C23_HistoryOnlyGrows ==
  [][last'.op # "clear" =>
       /\ IsPrefix(hist, hist')
       /\ IsPrefix(CurHist, CurHist')]_vars
\* the state was reset (an expired or unclean record read as the default
\* state) and the stored history was kept and extended
C23_Witness ==
  /\ Completed(last) /\ last.fase0 = "inicial" /\ now >= 25
  /\ hist = <<"user", "assistant", "user", "assistant">>

\* the phases in which the level is known
FasesComNivel ==
  {"exercicios_leitura", "aguardando_leitura_audio",
   "aguardando_decisao_pos_feedback", "personalizado"}

\* C25: in every reachable state a level is stored only in the phases
\* exercicios_leitura, aguardando_leitura_audio,
\* aguardando_decisao_pos_feedback and personalizado (it is None in inicial,
\* aguardando_nome, solicitar_teste_leitura and aguardando_teste_leitura),
\* and the level changes only in a turn handled in aguardando_teste_leitura
\* or in aguardando_decisao_pos_feedback, or when the state is reset.
C25_LevelOnlyAfterTheTest ==
  /\ [](~IsNone(Cur.nivel_alfabetizacao) <=> Cur.fase \in FasesComNivel)
  /\ [][Cur'.nivel_alfabetizacao # Cur.nivel_alfabetizacao =>
          \/ Handled(last', "aguardando_teste_leitura")
          \/ Handled(last', "aguardando_decisao_pos_feedback")
          \/ Cur' = get_default_state(now')
          \/ last'.restarted]_vars
\* the decision for a harder exercise changed the level
C25_Witness ==
  /\ Handled(last, "aguardando_decisao_pos_feedback") /\ last.increase
  /\ last.action = "exercise"
  /\ Cur.nivel_alfabetizacao = Some(Intermediario)
  /\ Cur.fase = "aguardando_leitura_audio"

\* C21: a state file that cannot be read is taken for a missing one, the
\* read returns the default state and does not raise; an index file that
\* cannot be read is replaced by a new index with the seed document only.
C21_UnreadableFilesReadAsMissing ==
  /\ (last.op = "load_state" /\ last.args[1] = UnreadableFile) =>
       /\ ~last.result.raised
       /\ last.result.state = Some(get_default_state(now))
  /\ (last.op = "load_index" /\ last.args[1] = "unreadable" /\ last.args[2]) =>
       /\ ~last.result.raised
       /\ last.result.store = "seed_only"

\* the last n messages of a history, in their order
LastMessages(history, n) ==
  [i \in 1..n |-> history[Len(history) - n + i]]

\* C24: get_history with a limit N of 0 or more returns the last
\* min(N, length) messages of the history, the newest last; with no limit
\* it returns the whole history.
C24_LimitReturnsTheMostRecent ==
  last.op = "get_history" =>
    LET history == last.args[1]
        limit == last.args[2]
    IN IF limit = None THEN last.result = history
       ELSE last.result =
              LastMessages(history, IF Val(limit) < Len(history)
                                    THEN Val(limit) ELSE Len(history))

\* the tokens that end a sentence
FimDeFrase ==
  {"dia.", "noite.", "quente.", "fria.", "casa.", "porta.", "janela.",
   "bonito.", "leite.", "brincar.", "gato.", "escola.", "escrever.",
   "legal.", "amigos.", "divertido.", "cachorro.", "muito.", "parque.",
   "pessoal.", "imaginação.", "interessantes.", "dias.", "ambiente.",
   "árvores.", "vivemos.", "livro."}
\* the sentences of a text: the tokens that end one, and the rest of the
\* text after the last of them
Frases(texto) ==
  Cardinality({i \in 1..Len(texto) : texto[i] \in FimDeFrase})
    + (IF texto # <<>> /\ texto[Len(texto)] \notin FimDeFrase THEN 1 ELSE 0)
\* the shape of an exercise of a level
Shape(nivel, texto) ==
  IF nivel = Iniciante THEN Len(texto) = 1
  ELSE IF nivel = Intermediario THEN Len(texto) >= 3 /\ Len(texto) <= 6
  ELSE Len(texto) <= 16 /\ Frases(texto) \in {1, 2}

\* C26: the exercise the generator returns has the shape of the level it
\* was asked for, with the completion service and without it: one token for
\* a beginner, three to six for intermediate, at most sixteen in one or two
\* sentences for advanced.
C26_ExerciseHasTheShapeOfItsLevel ==
  (last.op = "generate" /\ last.args[1] # None) =>
    Shape(Val(last.args[1]), last.result.texto)

\* the static bank of a level
Bank(nivel) ==
  IF nivel = Iniciante THEN BankIniciante
  ELSE IF nivel = Intermediario THEN BankIntermediario
  ELSE BankAvancado

\* C27: when there is no completion service, or its call raises, the
\* generator returns the text of the bank of the level asked for at the
\* place (exercise number - 1) modulo the length of that bank.
C27_FallbackIsTheBankOfTheLevel ==
  (/\ last.op = "generate" /\ last.args[1] # None
   /\ (openai_client = "none" \/ last.args[3].kind = "raise")) =>
    LET bank == Bank(Val(last.args[1]))
    IN last.result = bank[((last.args[2] - 1) % Len(bank)) + 1]

\* C28: the score is between 0 and 100 per cent: the hits are no more than
\* the expected words, also when a word is said twice or no word is
\* expected.
C28_AccuracyWithinBounds ==
  last.op = "analyze" =>
    /\ last.result.acertos >= 0
    /\ last.result.acertos <= last.result.total

\* C29: against a list that is not empty the score is 100 per cent exactly
\* when every expected word is among the normalized tokens of the
\* utterance.
C29_FullScoreIffEveryWordRead ==
  (last.op = "analyze" /\ last.args[2] # <<>>) =>
    LET raw == Split(last.args[1])
        tokens == {NormalizeWord(raw[i]) : i \in 1..Len(raw)}
        expected == last.args[2]
    IN (100 * last.result.acertos = 100 * last.result.total)
         <=> \A i \in 1..Len(expected) : NormalizeWord(expected[i]) \in tokens

\* C30: when the answer of the completion service holds a well-formed
\* object with a valid action and text around it, the classifier returns
\* the action and the increase_level of that object.
C30_ClassifierParsesLeniently ==
  (last.op = "decide" /\ last.args[1].kind = "wrapped") =>
    /\ last.result.action = Strip(Lower(Val(last.args[1].action)))
    /\ last.result.increase_level = Some(last.args[1].increase_level.v)

\* what one operation for a user alone leaves of the entries st
AloneResults(st, t, client) ==
  {x.store : x \in UNION {generate_response(st, m, TRUE, client, t) : m \in UsersMessages}}
    \cup {should_generate_test_image(st, t).store, clear_user_context(st, t).store}

\* C22: whatever the interleaving of the turns, queries and clears of two
\* users, an operation for one user changes nothing of the state, the
\* history or the vector store of the other, in the caches or on the disk,
\* and leaves of its own user's entries what the same operation leaves when
\* that user is alone.
C22_UsersAreIndependent ==
  [][/\ last'.user \in Users
     /\ \A u \in Users :
          IF u = last'.user
          THEN UserStore(u)' \in AloneResults(UserStore(u), now, openai_client)
          ELSE UserStore(u)' = UserStore(u)]_vars
\* the context of B was cleared after both users talked: A is still in the
\* reading test with its history, B has nothing
C22_Witness ==
  /\ last.user = "B" /\ last.record.op = "clear"
  /\ last.record.fase0 = "aguardando_nome"
  /\ UserStore("B") = StoreOf(<<>>, <<>>, <<>>, <<>>, FALSE)
  /\ disk["A"] # <<>> /\ Val(disk["A"]).fase = "aguardando_teste_leitura"
  /\ Len(hist["A"]) = 4 /\ user_vectorstores["A"]

\* the phases after the collection of the name and the age
FasesComPerfil ==
  {"solicitar_teste_leitura", "aguardando_teste_leitura", "exercicios_leitura",
   "aguardando_leitura_audio", "aguardando_decisao_pos_feedback", "personalizado"}

\* C34: in every reachable state whose phase is solicitar_teste_leitura,
\* aguardando_teste_leitura, exercicios_leitura, aguardando_leitura_audio,
\* aguardando_decisao_pos_feedback or personalizado the name is known and is
\* not empty, and the age is known and is between 1 and 120.
C34_ProfileCompleteInLaterPhases ==
  Cur.fase \in FasesComPerfil =>
    /\ ~IsNone(Cur.nome) /\ Val(Cur.nome) # <<>>
    /\ ~IsNone(Cur.idade)
    /\ MinAge <= Val(Cur.idade) /\ Val(Cur.idade) <= MaxAge
\* the name came first, an age of 200 was refused, and the age of 7
\* completed the profile
C34_Witness ==
  /\ Handled(last, "aguardando_nome") /\ last.msg = MsgTenho7
  /\ Cur.fase = "solicitar_teste_leitura"
  /\ Cur.nome = Some(Ana) /\ Cur.idade = Some(7)

\* C35: in solicitar_teste_leitura and in aguardando_teste_leitura the
\* stored test words are the four basic words; so every test is scored out
\* of 4, and the level stored after it is the level the rate alone
\* classifies to: advanced for four words or more does not change it.
C35_TestIsTheFourBasicWords ==
  /\ Cur.fase \in {"solicitar_teste_leitura", "aguardando_teste_leitura"} =>
       Cur.palavras_teste = palavras_basico
  /\ Handled(last, "aguardando_teste_leitura") =>
       /\ Cur.total_testes = 4
       /\ Cur.nivel_alfabetizacao =
            Some(ClassifyLevel(Cur.acertos, Cur.total_testes))
\* four words right of four: advanced by the override and by the rate
C35_Witness ==
  /\ Handled(last, "aguardando_teste_leitura") /\ last.msg = MsgCasa4
  /\ Cur.acertos = 4 /\ Cur.total_testes = 4
  /\ Cur.nivel_alfabetizacao = Some(Avancado)

\* the roles of a history in which every message has its reply
Alternating(h) ==
  \A i \in 1..Len(h) : h[i] = IF i % 2 = 1 THEN "user" ELSE "assistant"

\* C38: in every reachable state, also after a turn that an embedding call
\* aborted, the history alternates user, assistant, user, assistant from a
\* user message on, and after every turn its length is even.
C38_HistoryAlternates ==
  /\ Alternating(hist) /\ Alternating(CurHist)
  /\ IsTurn(last) => Len(hist) % 2 = 0

\* C37: the expiry is measured from the last activity of the user: when the
\* process is constructed again less than 24 hours after a turn of the user
\* completed, the record it reads is not expired and the state read is not
\* the default state of a new user.
C37_ExpiryCountsFromTheLastTurn ==
  [][(/\ Completed(last) /\ last'.op = "restart"
      /\ now' - now < ExpiryHours /\ disk # <<>>) =>
       /\ ~is_conversation_expired(Val(disk), now')
       /\ Cur'.fase = Val(disk).fase]_vars

\* C36: for a user who started with no file, whatever the turns, the
\* queries, the clears of the context, the restarts of the process and the
\* expiries of the state, the history read is not empty while the phase is
\* personalizado, so no turn is restarted by the rule of the bare greeting;
\* the turn that follows a clear of the context, when it is routed, is
\* handled in the phase inicial and answers the greeting.
C36_RestartRuleNeverApplies ==
  /\ [](Cur.fase = "personalizado" => CurHist # <<>>)
  /\ [][IsTurn(last') => ~last'.restarted]_vars
  /\ [][(last.op = "clear" /\ IsTurn(last') /\ last'.fase0 # "none") =>
          /\ last'.fase0 = "inicial" /\ last'.reply = "saudacao"]_vars
\* a user in personalizado sent a bare greeting and the turn was handled
\* in personalizado
C36_Witness ==
  /\ Completed(last) /\ last.fase0 = "personalizado" /\ last.saudacao
  /\ ~last.restarted /\ Cur.fase = "personalizado" /\ Len(CurHist) = 14

\* an answer of the completion service that names neither help nor another
\* exercise
NoDecision(out) ==
  \/ out.kind # "object"
  \/ IsNone(out.action)
  \/ Strip(Lower(Val(out.action))) \notin {Act_help, Act_exercise}

\* C31: the classifier returns an action among help, exercise and unknown
\* and an increase_level among true, false and None, whatever the
\* completion service answers: a failing call, a content that is no JSON
\* document and a JSON value that is no object give unknown and None, an
\* action outside the set gives unknown, an increase_level that is no
\* boolean gives None; and on such an answer the handler of
\* aguardando_decisao_pos_feedback leaves the state as it is, saves nothing
\* and asks again.
C31_ClassifierCollapsesToUnknown ==
  /\ last.op = "decide" =>
       LET out == last.args[1]
       IN /\ last.result.action \in {Act_help, Act_exercise, Act_unknown}
          /\ last.result.increase_level \in {None, Some(TRUE), Some(FALSE)}
          /\ out.kind # "object" => last.result = Unknown
          /\ NoDecision(out) => last.result.action = Act_unknown
          /\ out.increase_level.t # "bool" => last.result.increase_level = None
  /\ (last.op = "post_feedback" /\ NoDecision(last.args[2])) =>
       /\ last.result # {}
       /\ \A r \in last.result :
             /\ r.state = last.args[1] /\ ~r.raised
             /\ r.reply = "nao_entendi" /\ r.saves = 0
\* the service answered an action that is not of the set
C31_Witness ==
  /\ last.op = "post_feedback"
  /\ last.args[2].action = Some(<<"q", "u", "i", "t">>)
  /\ \A r \in last.result :
        /\ r.state.fase = "aguardando_decisao_pos_feedback"
        /\ r.reply = "nao_entendi" /\ r.saves = 0

\* C40: for every passage and every text heard the number of words right
\* that the scoring of the passage returns, the expected words less the
\* words replaced and the words missing, is between 0 and the number of
\* expected words.
C40_PassageScoreWithinBounds ==
  last.op = "analyze_attempt" =>
    /\ last.result.acertos >= 0
    /\ last.result.acertos <= last.result.total_palavras_esperadas

\* C32: the request to restart the conversation succeeds for a user in any
\* phase: it answers ok, the state stored and read afterwards is in the
\* phase inicial with no name, no age, no level, no test words and the
\* scores 0, and the history is as it was.
C32_RestartRequestSucceeds ==
  [][last'.op = "reiniciar_conversa" =>
       /\ last'.status = "ok"
       /\ disk' # <<>> /\ Val(disk').fase = "inicial"
       /\ Cur'.fase = "inicial"
       /\ IsNone(Cur'.nome) /\ IsNone(Cur'.idade)
       /\ IsNone(Cur'.nivel_alfabetizacao)
       /\ Cur'.palavras_teste = <<>>
       /\ Cur'.acertos = 0 /\ Cur'.total_testes = 0
       /\ hist' = hist /\ CurHist' = CurHist]_vars

\* C33: a request whose turn was routed and leaves the user in
\* aguardando_leitura_audio answers ok with a response of the kind
\* exercicio_leitura that carries the text stored in the state.
C33_ExerciseReturnedWithItsPhase ==
  (/\ last.op = "processar_base64" /\ last.fase0 # "none"
   /\ Cur.fase = "aguardando_leitura_audio") =>
    /\ last.status = "ok" /\ last.tipo = "exercicio_leitura"
    /\ Some(last.texto) = Cur.texto_atual

\* C39: a request that fails after should_generate_test_image answered
\* true does not leave the user in aguardando_teste_leitura: the phase is
\* aguardando_teste_leitura after a request only when the request returned
\* the test image.
C39_TestStartsWithItsImage ==
  (last.op = "processar_base64" /\ last.should_generate) =>
    IF last.status = "ok"
    THEN last.tipo = "imagem_com_audio" /\ Cur.fase = "aguardando_teste_leitura"
    ELSE Cur.fase # "aguardando_teste_leitura"

====
